---- MODULE Spec2Model ----
(***************************************************************************)
(* A model of the agentic chat backend: the AgentOrchestrator graph        *)
(* (orchestration/orchestrator.py, nodes.py, routing.py), the thread store *)
(* and chat facade (core/agent.py), the FAISS vector store                 *)
(* (knowledge_engine/vector_store.py), document ingestion                  *)
(* (knowledge_engine/ingestion.py), the MCP tool registry (core/agent.py)  *)
(* and the SmartOrchestrator graph (orchestration/wow_orchestration.py).   *)
(*                                                                         *)
(* Each subsystem has its own specification (SpecGraph, SpecThread,        *)
(* SpecStore, SpecStoreSteps, SpecIngest, SpecTools, SpecSmart); the       *)
(* variables of the other subsystems stay at their initial values under    *)
(* it.                                                                     *)
(***************************************************************************)
EXTENDS Integers, Sequences, FiniteSets, TLC

VARIABLES
    \* ---- knowledge routes: uploads and their background tasks
    u_pc,               \* per task id: where its upload and background task stand
    u_status,           \* _processing_status: the status of each task id, "none" for no key
    u_temp,             \* per task id: the temporary upload file exists
    \* ---- ClubDocumentChunker._split_text: one call, character by character
    e_text,             \* the text given to _split_text
    e_size,             \* self.chunk_size
    e_overlap,          \* self.chunk_overlap
    e_result,           \* what the call returned
    \* ---- rag_server.py: the tool server process and its own VectorStore
    x_running,          \* the server process is up
    x_store,            \* the server's vector_store, loaded when the process started
    x_last,             \* what the last retrieve_context call returned
    \* ---- GraphStore: the citation graph and its Neo4j backend
    r_pc,               \* "new" | "ready"
    r_configured,       \* uri, user and password were given
    r_enabled,          \* self.enabled
    r_up,               \* the backend answers
    r_papers,           \* the Paper nodes of the backend
    r_cites,            \* the CITES edges of the backend
    r_last,             \* the last call: what it met and returned
    \* ---- AgentOrchestrator: the AgentState of one request and the graph position
    g_pc,               \* "idle" | the node that runs next | "END" | "error"
    user_query,         \* the request's query
    red_flag,
    intent_categories,  \* the set of intents planning_node stored
    agent_results,      \* the agents whose *_results field is not None
    final_response,     \* "" | "canned" | "generated" | "generation_error"
    confidence_score,   \* in tenths: 6 is 0.6
    iteration_count,
    g_supersteps,       \* supersteps the compiled graph has run
    g_runs,             \* history: how often each node has run in this request
    g_retry_edges,      \* history: how often confidence_check -> planning was taken
    g_tool_calls,       \* history: the agents whose tool this request has called
    \* ---- AgentManager: the thread store and the chat calls in flight
    threads,            \* thread id -> the thread's "messages" list
    msg_seq,            \* history: number of messages appended so far (stamps each message)
    c_pc,               \* per chat call: "idle" | "awaiting" | "returned" | "raised"
    c_thread,           \* per chat call: its thread id
    c_message,          \* per chat call: the user's message
    c_reply,            \* per chat call: the reply the orchestrator or LLM produced
    c_result,           \* per chat call: the "message" of the returned dict
    c_len0,             \* history: length of the thread when the call began
    \* ---- VectorStore: the FAISS index, its metadata, and the files on disk
    index,              \* self.index: the vectors, position i holding FAISS id i-1
    metadata,           \* self.metadata: the chunk dicts
    id_to_paper,        \* self.id_to_paper: chunk id -> paper id
    disk_index,         \* the file faiss.index
    disk_meta,          \* the file metadata.json
    next_uid,           \* history: number of chunks ever added (stamps each one)
    deleted_docs,       \* history: papers deleted and not added again since
    last_search,        \* what the last search call returned
    last_add,           \* history: whether the last call was an add_documents with a
                        \* matrix of a wrong width, and whether it raised
    \* ---- VectorStore, statement by statement: one writer, readers, process stops
    w_pc,               \* "idle" | the statement the writer runs next | "stopped"
    w_local,            \* the locals of the add_documents / delete_paper call in progress
    w_pre,              \* history: the store when the call in progress began
    w_post,             \* history: the store the call in progress leaves when it completes
    w_obs,              \* history: what the last search could have returned before / after
    w_reopened,         \* history: the store was opened from disk and not written since
    w_count,            \* history: the searches run and the process stops so far
    \* ---- DocumentIngestion: the documents ingested into the VectorStore
    i_used,             \* history: the uuid4 values drawn so far
    i_source,           \* the pairs <<paper_id, filename>> of the chunks' metadata
    i_uploads,          \* the paper ids with a <paper_id>.pdf under upload_dir
    i_last,             \* the dict the last process_pdf / delete_document returned
    i_text,             \* per chunk stamp: the file and chunk_id its 'text' comes from
    \* ---- Club knowledge: the Drive folder, chunks_latest.json and the club index
    cl_source,          \* the files of the RoboticsClub Drive folder
    cl_chunks_latest,   \* the file chunks_latest.json
    cl_index,           \* ClubVectorStore: index, index_to_id and documents, and the files
    cl_status,          \* the status of the last run_full_ingestion / generate_embeddings
    cl_snapshots,       \* history: documents and chunk count after each complete pipeline
    cl_runs,            \* history: number of run_full_ingestion calls
    cl_result,          \* the summary the last run_full_ingestion returned
    \* ---- DocumentChunker: one chunk_text call
    k_text,             \* the text argument, a sequence of characters
    k_size,             \* self.chunk_size
    k_overlap,          \* self.chunk_overlap
    k_result,           \* what the call did: the chunks, or that the loop never ends
    \* ---- collaboration_agent / github_agent: one call on an AgentState
    h_pc,               \* "idle" | "done"
    h_agent,            \* the agent that ran
    h_plan,             \* the operations of the tool plan the LLM returned
    h_calls,            \* history: the positions of the plan given to self.mcp.call_tool
    h_pending,          \* state["pending_human_approval"]
    h_errors,           \* state["errors"], as their number
    \* ---- AgentManager: the MCP tool registry
    m_settings,         \* the enable_* settings, read once per process: {} before, {st} after
    m_initialized,      \* self._initialized
    m_server_config,    \* the keys of self._server_config
    m_up,               \* history: the servers that started and listed their tools
    m_tools,            \* the names of self.tools
    m_last,             \* history: the last call_tool call and how it ended
    \* ---- SmartOrchestrator: the OrchestratorState of one run and the graph position
    o_query,            \* the user_query of the run
    o_agg_llm,          \* history: llm.invoke calls of results_aggregator_node
    o_club_rows,        \* history: what each club query of the run met
    o_pc,               \* "idle" | the node that runs next | "workers" | "END" | "error"
    plan,
    tasks,
    web_context,
    rag_context,
    club_context,
    combined_context,   \* the text, as its length and the items it lists in order
    worker_writes,      \* per Send of the fan-out: the result its worker returned
                        \* (and, as history, what happened inside the worker)
    results,
    o_final_response,
    o_ran,              \* history: the nodes that have run
    o_agg_input         \* history: the results list the aggregator read

gvars == <<g_pc, user_query, red_flag, intent_categories, agent_results,
           final_response, confidence_score, iteration_count, g_supersteps,
           g_runs, g_retry_edges, g_tool_calls>>

tvars == <<threads, msg_seq, c_pc, c_thread, c_message, c_reply, c_result, c_len0>>

svars == <<index, metadata, id_to_paper, disk_index, disk_meta, next_uid,
           deleted_docs, last_search>>

ovars == <<o_pc, plan, tasks, web_context, rag_context, club_context,
           combined_context, worker_writes, results, o_final_response, o_ran,
           o_agg_input>>

wvars == <<w_pc, w_local, w_pre, w_post, w_obs, w_reopened, w_count>>

qvars == <<o_query, o_agg_llm, o_club_rows>>

mvars == <<m_settings, m_initialized, m_server_config, m_up, m_tools, m_last>>

ivars == <<i_used, i_source, i_uploads, i_last, i_text>>

cvars == <<cl_source, cl_chunks_latest, cl_index, cl_status, cl_snapshots, cl_runs,
           cl_result>>

kvars == <<k_text, k_size, k_overlap, k_result>>

avars == <<last_add>>

hvars == <<h_pc, h_agent, h_plan, h_calls, h_pending, h_errors>>

rvars == <<r_pc, r_configured, r_enabled, r_up, r_papers, r_cites, r_last>>

xvars == <<x_running, x_store, x_last>>

evars == <<e_text, e_size, e_overlap, e_result>>

uvars == <<u_pc, u_status, u_temp>>

vars == <<gvars, tvars, svars, wvars, ovars, qvars, mvars, ivars, cvars, kvars, avars, hvars, rvars, xvars, evars, uvars>>

NotGraph == <<tvars, svars, wvars, ovars, qvars, mvars, ivars, cvars, kvars, avars, hvars, rvars, xvars, evars, uvars>>

NotThread == <<gvars, svars, wvars, ovars, qvars, mvars, ivars, cvars, kvars, avars, hvars, rvars, xvars, evars, uvars>>

NotStore == <<gvars, tvars, wvars, ovars, qvars, mvars, ivars, cvars, kvars, hvars, rvars, xvars, evars, uvars>>

NotTools == <<gvars, tvars, svars, wvars, ovars, qvars, ivars, cvars, kvars, avars, hvars, rvars, xvars, evars, uvars>>

NotStoreSteps == <<gvars, tvars, ovars, qvars, mvars, ivars, cvars, kvars, avars, hvars, rvars, xvars, evars, uvars>>

NotSmart == <<gvars, tvars, svars, wvars, mvars, ivars, cvars, kvars, avars, hvars, rvars, xvars, evars, uvars>>

NotIngest == <<gvars, tvars, wvars, ovars, qvars, mvars, cvars, kvars, avars, hvars, rvars, xvars, evars, uvars>>

NotClub == <<gvars, tvars, svars, wvars, ovars, qvars, mvars, ivars, kvars, avars, hvars, rvars, xvars, evars, uvars>>

NotChunker == <<gvars, tvars, svars, wvars, ovars, qvars, mvars, ivars, cvars, avars, hvars, rvars, xvars, evars, uvars>>

NotApproval == <<gvars, tvars, svars, wvars, ovars, qvars, mvars, ivars, cvars, kvars, avars, rvars, xvars, evars, uvars>>

NotCitations == <<gvars, tvars, svars, wvars, ovars, qvars, mvars, ivars, cvars, kvars, avars, hvars, xvars, evars, uvars>>

NotRagServer == <<gvars, tvars, svars, wvars, ovars, qvars, mvars, ivars, cvars, kvars, avars, hvars, rvars, evars, uvars>>

NotClubChunker == <<gvars, tvars, svars, wvars, ovars, qvars, mvars, ivars, cvars, kvars, avars, hvars, rvars, xvars, uvars>>

NotUpload == <<gvars, tvars, svars, wvars, ovars, qvars, mvars, ivars, cvars, kvars, avars, hvars, rvars, xvars, evars>>

(***************************************************************************)
(* Small helpers                                                           *)
(***************************************************************************)
Min(a, b) == IF a <= b THEN a ELSE b

Range(s) == {s[i] : i \in DOMAIN s}

(***************************************************************************)
(* AgentOrchestrator graph                                                 *)
(***************************************************************************)

\* Queries that match one of red_flag_node's destructive patterns.
DestructiveQueries == {"delete all my emails", "please destroy the repo"}

\* Queries that match none of them.
BenignQueries == {"what is pid control", "show my latest emails"}

Queries == DestructiveQueries \cup BenignQueries

\* re.search over destructive_patterns: the queries of the model that match.
MatchesDestructivePattern(q) == q \in DestructiveQueries

Agents == {"gmail", "calendar", "drive", "rag"}

Intents == Agents \cup {"general"}

GraphNodes == {"red_flag", "planning", "gmail_agent", "calendar_agent", "drive_agent",
               "rag_agent", "response_generation", "confidence_check"}

AgentNode(a) == IF a = "gmail" THEN "gmail_agent"
                ELSE IF a = "calendar" THEN "calendar_agent"
                ELSE IF a = "drive" THEN "drive_agent"
                ELSE "rag_agent"

\* The intent lists the planning LLM returns in the model (any JSON array of
\* strings is possible; ["general"] is also what a failed call yields).
IntentLists == {{}, {"general"}, {"gmail"}, {"calendar", "drive"}, {"rag", "general"},
                {"gmail", "rag"}}

\* Scores the confidence LLM may put in its JSON, in tenths.
Scores == {0, 5, 6, 10}

\* max_iterations of should_retry, and the literal 2 of confidence_check_node
max_iterations == 2

\* confidence_threshold of should_retry, in tenths
confidence_threshold == 6

\* result.get("score", 0.9) and the no-JSON branch of confidence_check_node, in tenths
DefaultScore == 9

\* the score confidence_check_node reports after an exception or at the cap, in tenths
FallbackScore == 5

\* Supersteps a compiled LangGraph graph runs before it raises GraphRecursionError
\* (the library's default recursion_limit; process_message passes no config).
RecursionLimit == 25

\* What the confidence LLM call can produce.
ConfidenceOutcomes ==
    {[kind |-> "exception"], [kind |-> "no_json"]}
    \cup {[kind |-> "json", score |-> s, retry_needed |-> b] :
            s \in Scores \cup {DefaultScore}, b \in BOOLEAN}

\* A routing function that ignores the flag.
should_continue_always(rf) == "agents"

should_continue_to_agents(rf) == IF rf THEN "end" ELSE "agents"

should_retry(confidence, iterations) ==
    IF iterations >= max_iterations THEN "end"
    ELSE IF confidence < confidence_threshold THEN "retry"
    ELSE "end"

\* The updates confidence_check_node returns: the new confidence_score and
\* iteration_count, given the state's iteration_count and the LLM outcome.
confidence_updates(iters, out) ==
    IF iters >= max_iterations
    THEN [confidence_score |-> FallbackScore, iteration_count |-> iters]
    ELSE IF out.kind = "exception"
    THEN [confidence_score |-> FallbackScore, iteration_count |-> iters]
    ELSE IF out.kind = "no_json"
    THEN [confidence_score |-> DefaultScore, iteration_count |-> iters]
    ELSE [confidence_score |-> out.score,
          iteration_count |-> IF out.retry_needed /\ iters < max_iterations
                              THEN iters + 1 ELSE iters]

GInit ==
    /\ g_pc = "idle"
    /\ user_query = ""
    /\ red_flag = FALSE
    /\ intent_categories = {}
    /\ agent_results = {}
    /\ final_response = ""
    /\ confidence_score = 0
    /\ iteration_count = 0
    /\ g_supersteps = 0
    /\ g_runs = [n \in GraphNodes |-> 0]
    /\ g_retry_edges = 0
    /\ g_tool_calls = {}

\* A node may run only while the graph has supersteps left.
CanStep == g_supersteps < RecursionLimit

Ran(ns) == [n \in GraphNodes |-> IF n \in ns THEN g_runs[n] + 1 ELSE g_runs[n]]

\* AgentOrchestrator.process_message: build initial_state and invoke the graph.
process_message ==
    /\ UNCHANGED NotGraph
    /\ g_pc = "idle"
    /\ \E q \in Queries : user_query' = q
    /\ g_pc' = "red_flag"
    /\ UNCHANGED <<red_flag, intent_categories, agent_results, final_response,
                   confidence_score, iteration_count, g_supersteps, g_runs,
                   g_retry_edges, g_tool_calls>>

\* Node red_flag and the conditional edge should_continue_to_agents.
red_flag_node ==
    /\ UNCHANGED NotGraph
    /\ g_pc = "red_flag"
    /\ CanStep
    /\ red_flag' = MatchesDestructivePattern(user_query)
    /\ final_response' = IF red_flag' THEN "canned" ELSE final_response
    /\ g_pc' = IF should_continue_to_agents(red_flag') = "end" THEN "END" ELSE "planning"
    /\ g_supersteps' = g_supersteps + 1
    /\ g_runs' = Ran({"red_flag"})
    /\ UNCHANGED <<user_query, intent_categories, agent_results, confidence_score,
                   iteration_count, g_retry_edges, g_tool_calls>>

\* Node planning: the LLM's JSON array (or ["general"] when it fails or has none).
planning_node ==
    /\ UNCHANGED NotGraph
    /\ g_pc = "planning"
    /\ CanStep
    /\ \E intents \in IntentLists : intent_categories' = intents
    /\ g_pc' = "agents"
    /\ g_supersteps' = g_supersteps + 1
    /\ g_runs' = Ran({"planning"})
    /\ UNCHANGED <<user_query, red_flag, agent_results, final_response,
                   confidence_score, iteration_count, g_retry_edges, g_tool_calls>>

\* The four agent nodes, which run in one superstep. An agent whose intent was not
\* planned returns {}; a planned one calls its tool and stores the result, or
\* records an error when the call fails.
agent_nodes ==
    /\ UNCHANGED NotGraph
    /\ g_pc = "agents"
    /\ CanStep
    /\ \E ok \in SUBSET (intent_categories \cap Agents) :
            agent_results' = agent_results \cup ok
    /\ g_tool_calls' = g_tool_calls \cup (intent_categories \cap Agents)
    /\ g_pc' = "response_generation"
    /\ g_supersteps' = g_supersteps + 1
    /\ g_runs' = Ran({AgentNode(a) : a \in Agents})
    /\ UNCHANGED <<user_query, red_flag, intent_categories, final_response,
                   confidence_score, iteration_count, g_retry_edges>>

\* context_parts of response_generation_node: one part for every agent whose
\* results key of the state holds a result.
context_parts == agent_results

\* Node response_generation: the LLM's text, or the fixed error text.
response_generation_node ==
    /\ UNCHANGED NotGraph
    /\ g_pc = "response_generation"
    /\ CanStep
    /\ \E r \in {"generated", "generation_error"} : final_response' = r
    /\ g_pc' = "confidence_check"
    /\ g_supersteps' = g_supersteps + 1
    /\ g_runs' = Ran({"response_generation"})
    /\ UNCHANGED <<user_query, red_flag, intent_categories, agent_results,
                   confidence_score, iteration_count, g_retry_edges, g_tool_calls>>

\* Node confidence_check and the conditional edge should_retry.
confidence_check_node ==
    /\ UNCHANGED NotGraph
    /\ g_pc = "confidence_check"
    /\ CanStep
    /\ \E out \in ConfidenceOutcomes :
         LET u == confidence_updates(iteration_count, out)
             route == should_retry(u.confidence_score, u.iteration_count)
         IN /\ confidence_score' = u.confidence_score
            /\ iteration_count' = u.iteration_count
            /\ g_pc' = IF route = "retry" THEN "planning" ELSE "END"
            /\ g_retry_edges' = IF route = "retry" THEN g_retry_edges + 1
                                ELSE g_retry_edges
    /\ g_supersteps' = g_supersteps + 1
    /\ g_runs' = Ran({"confidence_check"})
    /\ UNCHANGED <<user_query, red_flag, intent_categories, agent_results,
                   final_response, g_tool_calls>>

\* The graph runs out of supersteps: ainvoke raises GraphRecursionError, which
\* process_message catches and turns into its error reply.
recursion_error ==
    /\ UNCHANGED NotGraph
    /\ g_pc \in {"red_flag", "planning", "agents", "response_generation", "confidence_check"}
    /\ ~CanStep
    /\ g_pc' = "error"
    /\ UNCHANGED <<user_query, red_flag, intent_categories, agent_results,
                   final_response, confidence_score, iteration_count, g_supersteps,
                   g_runs, g_retry_edges, g_tool_calls>>

GNext ==
    \/ process_message
    \/ red_flag_node
    \/ planning_node
    \/ agent_nodes
    \/ response_generation_node
    \/ confidence_check_node
    \/ recursion_error


(***************************************************************************)
(* AgentManager: thread store and chat                                     *)
(***************************************************************************)

ThreadIds == {"t1", "t2"}

Roles == {"user", "assistant"}

UserTexts == {"hello", "what is pid control"}

ReplyTexts == {"reply a", "reply b"}

\* Contents of the messages appended through add_message directly.
DirectTexts == {"note"}

Callers == {1, 2}

\* Messages appended over a whole behaviour.
MaxAppends == 4

NoThread == "none"

NoText == "none"

\* The message dict add_message builds; seq stands for its id and timestamp.
Message(role, content, n) == [role |-> role, content |-> content, seq |-> n]

\* An insert at the head of the list instead of an append.
PrependMessage(msgs, m) == <<m>> \o msgs

\* An append that overwrites the last message of the list (a lost update).
OverwriteLastMessage(msgs, m) ==
    IF msgs = <<>> THEN <<m>> ELSE [msgs EXCEPT ![Len(msgs)] = m]

\* thread["messages"].append(message)
AppendMessage(msgs, m) == Append(msgs, m)

\* AgentManager.get_messages
get_messages(t) == IF t \in DOMAIN threads THEN threads[t] ELSE <<>>

\* Line 584 of chat reads response["messages"], and chat binds no name
\* `response`: evaluating it raises NameError.
final_message_lookup_raises == TRUE

TInit ==
    /\ threads = <<>>
    /\ msg_seq = 0
    /\ c_pc = [c \in Callers |-> "idle"]
    /\ c_thread = [c \in Callers |-> NoThread]
    /\ c_message = [c \in Callers |-> NoText]
    /\ c_reply = [c \in Callers |-> NoText]
    /\ c_result = [c \in Callers |-> NoText]
    /\ c_len0 = [c \in Callers |-> 0]

\* AgentManager.create_thread
create_thread ==
    /\ UNCHANGED NotThread
    /\ \E t \in ThreadIds \ DOMAIN threads :
         threads' = [x \in DOMAIN threads \cup {t} |->
                        IF x = t THEN <<>> ELSE threads[x]]
    /\ UNCHANGED <<msg_seq, c_pc, c_thread, c_message, c_reply, c_result, c_len0>>

\* AgentManager.add_message called directly; False (no change) for an unknown thread.
add_message ==
    /\ UNCHANGED NotThread
    /\ msg_seq < MaxAppends
    /\ \E t \in ThreadIds, role \in Roles, content \in DirectTexts :
         IF t \in DOMAIN threads
         THEN /\ threads' = [threads EXCEPT
                                ![t] = AppendMessage(@, Message(role, content, msg_seq + 1))]
              /\ msg_seq' = msg_seq + 1
         ELSE UNCHANGED <<threads, msg_seq>>
    /\ UNCHANGED <<c_pc, c_thread, c_message, c_reply, c_result, c_len0>>

\* AgentManager.chat up to its first await: the thread checks and the append of
\* the user message. An unknown thread id raises ValueError before any change.
chat_begin ==
    /\ UNCHANGED NotThread
    /\ msg_seq < MaxAppends
    /\ \E c \in Callers, t \in ThreadIds, m \in UserTexts :
         /\ c_pc[c] = "idle"
         /\ IF t \in DOMAIN threads
            THEN /\ threads' = [threads EXCEPT
                                   ![t] = AppendMessage(@, Message("user", m, msg_seq + 1))]
                 /\ msg_seq' = msg_seq + 1
                 /\ c_pc' = [c_pc EXCEPT ![c] = "awaiting"]
                 /\ c_len0' = [c_len0 EXCEPT ![c] = Len(threads[t])]
            ELSE /\ c_pc' = [c_pc EXCEPT ![c] = "raised"]
                 /\ UNCHANGED <<threads, msg_seq, c_len0>>
         /\ c_thread' = [c_thread EXCEPT ![c] = t]
         /\ c_message' = [c_message EXCEPT ![c] = m]
    /\ UNCHANGED <<c_reply, c_result>>

\* AgentManager.chat from the point where the orchestrator (or the fallback LLM)
\* has produced its reply, to the end of the call.
chat_resume ==
    /\ UNCHANGED NotThread
    /\ final_message_lookup_raises \/ msg_seq < MaxAppends
    /\ \E c \in Callers, r \in ReplyTexts :
         /\ c_pc[c] = "awaiting"
         /\ c_reply' = [c_reply EXCEPT ![c] = r]
         /\ IF final_message_lookup_raises
            THEN /\ c_pc' = [c_pc EXCEPT ![c] = "raised"]
                 /\ UNCHANGED <<threads, msg_seq, c_result>>
            ELSE /\ threads' = [threads EXCEPT ![c_thread[c]] =
                                   AppendMessage(@, Message("assistant", r, msg_seq + 1))]
                 /\ msg_seq' = msg_seq + 1
                 /\ c_result' = [c_result EXCEPT ![c] = r]
                 /\ c_pc' = [c_pc EXCEPT ![c] = "returned"]
    /\ UNCHANGED <<c_thread, c_message, c_len0>>

\* AgentManager.chat when the fallback LLM call raises: the except clause re-raises.
chat_llm_error ==
    /\ UNCHANGED NotThread
    /\ \E c \in Callers :
         /\ c_pc[c] = "awaiting"
         /\ c_pc' = [c_pc EXCEPT ![c] = "raised"]
    /\ UNCHANGED <<threads, msg_seq, c_thread, c_message, c_reply, c_result, c_len0>>

TNext ==
    \/ create_thread
    \/ add_message
    \/ chat_begin
    \/ chat_resume
    \/ chat_llm_error

(***************************************************************************)
(* VectorStore                                                             *)
(***************************************************************************)

Papers == {"paper_1", "paper_2"}

\* An embedding is modelled by one coordinate; the L2 distance of two
\* embeddings is the square of the difference of their coordinates.
Coords == {0, 1}

\* Chunks (and embeddings) one add_documents call may carry.
MaxBatch == 2

\* Chunks added over a whole behaviour.
MaxChunks == 4

\* The k values search is called with.
MaxK == 3

\* A vector of the index: its coordinate, and (history) the stamp of the chunk it
\* was added with.
Vector(c, u) == [coord |-> c, uid |-> u]

\* A chunk dict: (history) its stamp and the paper it was added under.
Chunk(u, p) == [uid |-> u, added_under |-> p]

ntotal == Len(index)

\* The chunk ids 0 .. n-1, the keys str(i) of id_to_paper.
ChunkIds(n) == 0 .. (n - 1)

Distance(v, q) == (v.coord - q) * (v.coord - q)

\* FAISS id a comes before FAISS id b in the result of a flat search for q in
\* the index ix.
NearerIn(ix, a, b, q) ==
    \/ Distance(ix[a + 1], q) < Distance(ix[b + 1], q)
    \/ Distance(ix[a + 1], q) = Distance(ix[b + 1], q) /\ a < b

Nearer(a, b, q) == NearerIn(index, a, b, q)

\* ix.search(q, k): the k nearest FAISS ids, nearest first.
RECURSIVE NearestIn(_, _, _, _)
NearestIn(ix, ids, q, k) ==
    IF k = 0 \/ ids = {} THEN <<>>
    ELSE LET best == CHOOSE a \in ids : \A b \in ids \ {a} : NearerIn(ix, a, b, q)
         IN <<best>> \o NearestIn(ix, ids \ {best}, q, k - 1)

\* self.index.search(q, k)
Nearest(ids, q, k) == NearestIn(index, ids, q, k)

\* self.id_to_paper.get(str(i), default)
PaperOf(i, default) == IF i \in DOMAIN id_to_paper THEN id_to_paper[i] ELSE default

\* VectorStore.search on a store with the index ix, the metadata md and the
\* id_to_paper dict idp: the result dicts; score is 1 / score_den.
SearchIn(ix, md, idp, q, k) ==
    IF Len(ix) = 0 THEN <<>>
    ELSE LET ids == NearestIn(ix, ChunkIds(Len(ix)), q, Min(k, Len(ix)))
             hits == SelectSeq(ids, LAMBDA i : i < Len(md))
         IN [n \in 1 .. Len(hits) |->
                [chunk |-> md[hits[n] + 1],
                 distance |-> Distance(ix[hits[n] + 1], q),
                 score_den |-> 1 + Distance(ix[hits[n] + 1], q),
                 paper_id |-> IF hits[n] \in DOMAIN idp THEN idp[hits[n]]
                              ELSE "unknown"]]

\* VectorStore.search on self
search(q, k) == SearchIn(index, metadata, id_to_paper, q, k)

\* VectorStore.get_all_papers
get_all_papers == {id_to_paper[i] : i \in DOMAIN id_to_paper}

\* The positions of self.metadata that delete_paper keeps, in order.
KeptPositions(paper_id) ==
    SelectSeq([i \in 1 .. Len(metadata) |-> i],
              LAMBDA i : PaperOf(i - 1, "none") # paper_id)

\* delete_paper's loop raises before anything is changed: self.id_to_paper[str(i)]
\* has no such key, or index.reconstruct(i) has no such vector.
DeleteRaises(paper_id) ==
    \E n \in DOMAIN KeptPositions(paper_id) :
        LET i == KeptPositions(paper_id)[n]
        IN (i - 1) \notin DOMAIN id_to_paper \/ i > Len(index)

\* A delete that leaves self.metadata as it was.
KeptChunksAll(paper_id) == metadata

\* chunks_to_keep
KeptChunks(paper_id) ==
    [n \in DOMAIN KeptPositions(paper_id) |-> metadata[KeptPositions(paper_id)[n]]]

\* A delete that leaves the vectors of the index as they were.
KeptVectorsAll(paper_id) == index

\* embeddings_to_keep, as added to the index created anew
KeptVectors(paper_id) ==
    [n \in DOMAIN KeptPositions(paper_id) |-> index[KeptPositions(paper_id)[n]]]

\* A delete that keeps the survivors' old chunk ids.
KeptIdToPaperOldKeys(paper_id) ==
    [i \in {KeptPositions(paper_id)[n] - 1 : n \in DOMAIN KeptPositions(paper_id)} |->
        id_to_paper[i]]

\* new_id_to_paper
KeptIdToPaper(paper_id) ==
    [j \in ChunkIds(Len(KeptPositions(paper_id))) |->
        id_to_paper[KeptPositions(paper_id)[j + 1] - 1]]

\* The id_to_paper dict after add_documents has stored n chunks from start_id on.
AddedIdToPaper(start_id, n, paper_id) ==
    [i \in DOMAIN id_to_paper \cup (start_id .. (start_id + n - 1)) |->
        IF i \in start_id .. (start_id + n - 1) THEN paper_id ELSE id_to_paper[i]]

\* The index directory before the first save: neither file exists.
NoIndexFile == [present |-> FALSE, intact |-> TRUE, vectors |-> <<>>]

NoMetaFile == [present |-> FALSE, intact |-> TRUE, chunks |-> <<>>, id_to_paper |-> <<>>]

\* The last call was not an add_documents with a matrix of a wrong width.
NoAdd == [width_ok |-> TRUE, raised |-> FALSE]

SInit ==
    /\ last_add = NoAdd
    /\ index = <<>>
    /\ metadata = <<>>
    /\ id_to_paper = <<>>
    /\ disk_index = NoIndexFile
    /\ disk_meta = NoMetaFile
    /\ next_uid = 0
    /\ deleted_docs = {}
    /\ last_search = <<>>

\* VectorStore._save_index, as the values the two files get. json.dump keeps the
\* chunk list and the dict, whose keys are the strings str(chunk_id) already.
SavedIndex(ix) == [present |-> TRUE, intact |-> TRUE, vectors |-> ix]

\* A save that writes the chunks and leaves the id_to_paper dict out.
SavedMetaWithoutIds(md, ids) ==
    [present |-> TRUE, intact |-> TRUE, chunks |-> md, id_to_paper |-> <<>>]

SavedMeta(md, ids) ==
    [present |-> TRUE, intact |-> TRUE, chunks |-> md, id_to_paper |-> ids]

\* The store _create_new_index leaves: an empty index, no metadata, no ids.
EmptyStore == [index |-> <<>>, metadata |-> <<>>, id_to_paper |-> <<>>]

\* VectorStore._load_or_create_index: both files are read if both exist; a file
\* that cannot be read (cut short) raises, and so does a missing file of the
\* pair: the store is created anew.
LoadedStore(di, dm) ==
    IF di.present /\ dm.present /\ di.intact /\ dm.intact
    THEN [index |-> di.vectors, metadata |-> dm.chunks, id_to_paper |-> dm.id_to_paper]
    ELSE EmptyStore

\* An add_documents that checks the counts only.
AddRaisesOnCounts(n, m, width_ok) == n # m

\* add_documents raises: ValueError for len(embeddings) != len(chunks), and
\* index.add for a matrix that is not embedding_dim wide.
AddRaises(n, m, width_ok) == n # m \/ ~width_ok

\* VectorStore.add_documents(embeddings, chunks, paper_id): n embeddings of the
\* given coordinates, m chunks; width_ok says whether the matrix is embedding_dim
\* wide. A count mismatch raises ValueError and a wrong width makes index.add
\* raise, both before anything is changed.
add_documents ==
    /\ UNCHANGED NotStore
    /\ \E n \in 0 .. MaxBatch, m \in 0 .. MaxBatch, width_ok \in BOOLEAN, paper_id \in Papers :
         \E coords \in [1 .. n -> Coords] :
            /\ next_uid + n <= MaxChunks
            /\ last_add' = IF width_ok THEN NoAdd
                            ELSE [width_ok |-> FALSE,
                                  raised |-> AddRaises(n, m, width_ok)]
            /\ IF AddRaises(n, m, width_ok)
               THEN UNCHANGED <<index, metadata, id_to_paper, disk_index, disk_meta,
                                next_uid, deleted_docs>>
               ELSE LET start_id == ntotal
                        new_index == index \o [i \in 1 .. n |-> Vector(coords[i], next_uid + i)]
                        new_meta == metadata \o [i \in 1 .. m |-> Chunk(next_uid + i, paper_id)]
                        new_ids == AddedIdToPaper(start_id, m, paper_id)
                    IN /\ index' = new_index
                       /\ metadata' = new_meta
                       /\ id_to_paper' = new_ids
                       /\ disk_index' = SavedIndex(new_index)
                       /\ disk_meta' = SavedMeta(new_meta, new_ids)
                       /\ next_uid' = next_uid + n
                       /\ deleted_docs' = deleted_docs \ {paper_id}
    /\ UNCHANGED last_search

\* VectorStore.delete_paper(paper_id)
delete_paper ==
    /\ UNCHANGED NotStore
    /\ \E paper_id \in Papers :
         LET deleted_count == Len(metadata) - Len(KeptPositions(paper_id))
         IN IF DeleteRaises(paper_id) \/ deleted_count = 0
            THEN UNCHANGED <<index, metadata, id_to_paper, disk_index, disk_meta,
                             deleted_docs>>
            ELSE /\ index' = KeptVectors(paper_id)
                 /\ metadata' = KeptChunks(paper_id)
                 /\ id_to_paper' = KeptIdToPaper(paper_id)
                 /\ disk_index' = SavedIndex(index')
                 /\ disk_meta' = SavedMeta(metadata', id_to_paper')
                 /\ deleted_docs' = deleted_docs \cup {paper_id}
    /\ last_add' = NoAdd
    /\ UNCHANGED <<next_uid, last_search>>

\* A VectorStore.search call
store_search ==
    /\ UNCHANGED NotStore
    /\ \E q \in Coords, k \in 1 .. MaxK : last_search' = search(q, k)
    /\ last_add' = NoAdd
    /\ UNCHANGED <<index, metadata, id_to_paper, disk_index, disk_meta, next_uid,
                   deleted_docs>>

SNext ==
    \/ add_documents
    \/ delete_paper
    \/ store_search

(***************************************************************************)
(* VectorStore, statement by statement.  One add_documents or delete_paper *)
(* call runs at a time; search calls of other threads run between its      *)
(* statements (the class holds no lock), and the process may stop at any   *)
(* statement and be started again on the same directory.                   *)
(***************************************************************************)

NoLocals == [paper_id |-> "none", chunks |-> <<>>, vectors |-> <<>>,
             ids |-> <<>>, start_id |-> 0, i |-> 0]

CurrentStore == [index |-> index, metadata |-> metadata, id_to_paper |-> id_to_paper]

NoObservation == [during |-> FALSE, pre |-> <<>>, post |-> <<>>]

\* A file whose write was cut short by the process stopping.
CutIndexFile == [present |-> TRUE, intact |-> FALSE, vectors |-> <<>>]

CutMetaFile == [present |-> TRUE, intact |-> FALSE, chunks |-> <<>>, id_to_paper |-> <<>>]

\* Chunks added over a whole behaviour of the statement-by-statement store.
MaxStepChunks == 3

\* Searches of other threads, and process stops, over a whole behaviour.
MaxSearches == 1

MaxStops == 1

WInit ==
    /\ w_count = [searches |-> 0, stops |-> 0]
    /\ w_pc = "idle"
    /\ w_local = NoLocals
    /\ w_pre = EmptyStore
    /\ w_post = EmptyStore
    /\ w_obs = NoObservation
    /\ w_reopened = FALSE

\* add_documents, lines 93-100: the count check, start_id, self.index.add.
step_add_begin ==
    /\ UNCHANGED NotStoreSteps
    /\ w_pc = "idle"
    /\ \E n \in 0 .. MaxBatch, m \in 0 .. MaxBatch, paper_id \in Papers :
         \E coords \in [1 .. n -> Coords] :
            /\ next_uid + n <= MaxStepChunks
            /\ IF n # m
               THEN UNCHANGED <<index, next_uid, w_pc, w_local, w_pre, w_post, w_reopened>>
               ELSE LET new_index == index \o [i \in 1 .. n |-> Vector(coords[i], next_uid + i)]
                        chunks == [i \in 1 .. m |-> Chunk(next_uid + i, paper_id)]
                    IN /\ index' = new_index
                       /\ next_uid' = next_uid + n
                       /\ w_local' = [NoLocals EXCEPT !.paper_id = paper_id,
                                         !.chunks = chunks, !.start_id = ntotal, !.i = 1]
                       /\ w_pre' = CurrentStore
                       /\ w_post' = [index |-> new_index,
                                     metadata |-> metadata \o chunks,
                                     id_to_paper |-> AddedIdToPaper(ntotal, m, paper_id)]
                       /\ w_pc' = IF m = 0 THEN "save_index" ELSE "a_append"
                       /\ w_reopened' = FALSE
    /\ UNCHANGED <<metadata, id_to_paper, disk_index, disk_meta, deleted_docs,
                   last_search, w_obs, w_count>>

\* add_documents, line 105: self.metadata.append(chunk)
step_add_append ==
    /\ UNCHANGED NotStoreSteps
    /\ w_pc = "a_append"
    /\ metadata' = Append(metadata, w_local.chunks[w_local.i])
    /\ w_pc' = "a_setid"
    /\ UNCHANGED <<index, id_to_paper, disk_index, disk_meta, next_uid, deleted_docs,
                   last_search, w_local, w_pre, w_post, w_obs, w_reopened, w_count>>

\* add_documents, line 106: self.id_to_paper[str(chunk_id)] = paper_id
step_add_setid ==
    /\ UNCHANGED NotStoreSteps
    /\ w_pc = "a_setid"
    /\ id_to_paper' = AddedIdToPaper(w_local.start_id + w_local.i - 1, 1, w_local.paper_id)
    /\ w_local' = [w_local EXCEPT !.i = @ + 1]
    /\ w_pc' = IF w_local.i = Len(w_local.chunks) THEN "save_index" ELSE "a_append"
    /\ UNCHANGED <<index, metadata, disk_index, disk_meta, next_uid, deleted_docs,
                   last_search, w_pre, w_post, w_obs, w_reopened, w_count>>

\* delete_paper, lines 159-179: the loop that collects what to keep, and, if
\* something is deleted, self._create_new_index(), which also empties
\* self.metadata and self.id_to_paper.
step_delete_begin ==
    /\ UNCHANGED NotStoreSteps
    /\ w_pc = "idle"
    /\ \E paper_id \in Papers :
         LET deleted_count == Len(metadata) - Len(KeptPositions(paper_id))
         IN IF DeleteRaises(paper_id) \/ deleted_count = 0
            THEN UNCHANGED <<index, metadata, id_to_paper, w_pc, w_local, w_pre, w_post,
                             w_reopened>>
            ELSE /\ w_local' = [NoLocals EXCEPT !.paper_id = paper_id,
                                   !.chunks = KeptChunks(paper_id),
                                   !.vectors = KeptVectors(paper_id),
                                   !.ids = KeptIdToPaper(paper_id)]
                 /\ w_pre' = CurrentStore
                 /\ w_post' = [index |-> KeptVectors(paper_id),
                               metadata |-> KeptChunks(paper_id),
                               id_to_paper |-> KeptIdToPaper(paper_id)]
                 /\ index' = EmptyStore.index
                 /\ metadata' = EmptyStore.metadata
                 /\ id_to_paper' = EmptyStore.id_to_paper
                 /\ w_pc' = IF KeptVectors(paper_id) = <<>> THEN "d_meta" ELSE "d_add"
                 /\ w_reopened' = FALSE
    /\ UNCHANGED <<disk_index, disk_meta, next_uid, deleted_docs, last_search, w_obs, w_count>>

\* delete_paper, line 183: self.index.add(embeddings_array)
step_delete_add ==
    /\ UNCHANGED NotStoreSteps
    /\ w_pc = "d_add"
    /\ index' = w_local.vectors
    /\ w_pc' = "d_meta"
    /\ UNCHANGED <<metadata, id_to_paper, disk_index, disk_meta, next_uid, deleted_docs,
                   last_search, w_local, w_pre, w_post, w_obs, w_reopened, w_count>>

\* delete_paper, line 185: self.metadata = chunks_to_keep
step_delete_meta ==
    /\ UNCHANGED NotStoreSteps
    /\ w_pc = "d_meta"
    /\ metadata' = w_local.chunks
    /\ w_pc' = "d_ids"
    /\ UNCHANGED <<index, id_to_paper, disk_index, disk_meta, next_uid, deleted_docs,
                   last_search, w_local, w_pre, w_post, w_obs, w_reopened, w_count>>

\* delete_paper, line 186: self.id_to_paper = new_id_to_paper
step_delete_ids ==
    /\ UNCHANGED NotStoreSteps
    /\ w_pc = "d_ids"
    /\ id_to_paper' = w_local.ids
    /\ w_pc' = "save_index"
    /\ UNCHANGED <<index, metadata, disk_index, disk_meta, next_uid, deleted_docs,
                   last_search, w_local, w_pre, w_post, w_obs, w_reopened, w_count>>

\* _save_index, line 204: faiss.write_index(self.index, index_path)
step_save_index ==
    /\ UNCHANGED NotStoreSteps
    /\ w_pc = "save_index"
    /\ disk_index' = SavedIndex(index)
    /\ w_pc' = "save_meta"
    /\ UNCHANGED <<index, metadata, id_to_paper, disk_meta, next_uid, deleted_docs,
                   last_search, w_local, w_pre, w_post, w_obs, w_reopened, w_count>>

\* _save_index, lines 206-212: json.dump of the chunks and id_to_paper; the call
\* that saves returns.
step_save_meta ==
    /\ UNCHANGED NotStoreSteps
    /\ w_pc = "save_meta"
    /\ disk_meta' = SavedMeta(metadata, id_to_paper)
    /\ w_pc' = "idle"
    /\ w_local' = NoLocals
    /\ UNCHANGED <<index, metadata, id_to_paper, disk_index, next_uid, deleted_docs,
                   last_search, w_pre, w_post, w_obs, w_reopened, w_count>>

\* A search call of another thread, run between two statements of the writer.
step_search ==
    /\ UNCHANGED NotStoreSteps
    /\ w_pc # "stopped"
    /\ w_count.searches < MaxSearches
    /\ w_count' = [w_count EXCEPT !.searches = @ + 1]
    /\ \E q \in Coords, k \in 1 .. MaxK :
         /\ last_search' = search(q, k)
         /\ w_obs' = [during |-> w_pc # "idle",
                      pre |-> SearchIn(w_pre.index, w_pre.metadata, w_pre.id_to_paper, q, k),
                      post |-> SearchIn(w_post.index, w_post.metadata, w_post.id_to_paper, q, k)]
    /\ UNCHANGED <<index, metadata, id_to_paper, disk_index, disk_meta, next_uid,
                   deleted_docs, w_pc, w_local, w_pre, w_post, w_reopened>>

\* The process stops. Between statements the files stay as they are; inside the
\* write of a file, opened for writing in place, the file is left cut short.
step_stop ==
    /\ UNCHANGED NotStoreSteps
    /\ w_pc # "stopped"
    /\ w_count.stops < MaxStops
    /\ w_count' = [w_count EXCEPT !.stops = @ + 1]
    /\ \/ UNCHANGED <<disk_index, disk_meta>>
       \/ w_pc = "save_index" /\ disk_index' = CutIndexFile /\ UNCHANGED disk_meta
       \/ w_pc = "save_meta" /\ disk_meta' = CutMetaFile /\ UNCHANGED disk_index
    /\ w_pc' = "stopped"
    /\ w_local' = NoLocals
    /\ UNCHANGED <<index, metadata, id_to_paper, next_uid, deleted_docs, last_search,
                   w_pre, w_post, w_obs, w_reopened>>

\* VectorStore.__init__ on the same directory, in a new process.
step_reopen ==
    /\ UNCHANGED NotStoreSteps
    /\ w_pc = "stopped"
    /\ index' = LoadedStore(disk_index, disk_meta).index
    /\ metadata' = LoadedStore(disk_index, disk_meta).metadata
    /\ id_to_paper' = LoadedStore(disk_index, disk_meta).id_to_paper
    /\ w_pc' = "idle"
    /\ w_reopened' = TRUE
    /\ w_pre' = LoadedStore(disk_index, disk_meta)
    /\ w_post' = LoadedStore(disk_index, disk_meta)
    /\ w_obs' = NoObservation
    /\ UNCHANGED <<disk_index, disk_meta, next_uid, deleted_docs, last_search, w_local,
                   w_count>>

WNext ==
    \/ step_add_begin
    \/ step_add_append
    \/ step_add_setid
    \/ step_delete_begin
    \/ step_delete_add
    \/ step_delete_meta
    \/ step_delete_ids
    \/ step_save_index
    \/ step_save_meta
    \/ step_search
    \/ step_stop
    \/ step_reopen

(***************************************************************************)
(* DocumentIngestion                                                       *)
(***************************************************************************)

\* The PDF files a user uploads.
Files == {"short.pdf", "a.pdf", "b.pdf"}

\* The values uuid.uuid4() returns: a value is never returned twice.
Uuids == Papers \cup {"paper_3"}

\* len(text.strip()) of the text _extract_text_from_pdf returns for a file. A
\* text is modelled by its length; none has a sentence end or a newline in the
\* second half of a chunk window.
TextLen(f) ==
    CASE f = "short.pdf" -> 40
      [] f = "a.pdf" -> 125
      [] f = "b.pdf" -> 600

\* CHUNK_SIZE and CHUNK_OVERLAP of the DocumentChunker
chunk_size == 500

chunk_overlap == 50

\* process_pdf refuses a text of fewer characters.
MinTextLen == 100

\* The while loop of DocumentChunker.chunk_text from start on, for a text of
\* len_text characters.
RECURSIVE ChunkLoop(_, _)
ChunkLoop(len_text, start) ==
    IF start >= len_text THEN <<>>
    ELSE LET end == start + chunk_size
             next_start == end - chunk_overlap
         IN <<[start_char |-> start, end_char |-> end,
               text_len |-> Min(end, len_text) - start]>>
            \o (IF next_start >= len_text - chunk_overlap THEN <<>>
                ELSE ChunkLoop(len_text, next_start))

\* DocumentChunker.chunk_text(text, metadata); chunk_id is the position - 1.
chunk_text(len_text) == IF len_text = 0 THEN <<>> ELSE ChunkLoop(len_text, 0)

\* EmbeddingService.embed_text: a function of the chunk's text alone (its
\* SHA-256 hash), here of the length that stands for the text.
embed_text(chunk) == (chunk.text_len \div 50) % 2

\* The files whose chunks the index holds.
IndexedFiles == {pf[2] : pf \in {x \in i_source : x[1] \in get_all_papers}}

\* What a caller sees of a search result: per hit the text of the chunk (the
\* file and chunk_id it comes from), the distance and the score. The paper_id
\* is left out: every process_pdf call draws a new one.
ResultView(res, text_of) ==
    [n \in DOMAIN res |->
        [text |-> text_of[res[n].chunk.uid], distance |-> res[n].distance,
         score_den |-> res[n].score_den]]

\* The chunk texts of one process_pdf(f) into an empty store.
FreshText(f) ==
    [i \in 1 .. Len(chunk_text(TextLen(f))) |-> [file |-> f, chunk_id |-> i - 1]]

\* search(q, k) after one process_pdf(f) into an empty store.
FreshSearch(f, q, k) ==
    LET chunks == chunk_text(TextLen(f))
        ix == [i \in 1 .. Len(chunks) |-> Vector(embed_text(chunks[i]), i)]
        md == [i \in 1 .. Len(chunks) |-> Chunk(i, "fresh")]
        idp == [i \in ChunkIds(Len(chunks)) |-> "fresh"]
    IN ResultView(SearchIn(ix, md, idp, q, k), FreshText(f))

\* The dicts process_pdf and delete_document return.
NoResult == [op |-> "none", success |-> FALSE, paper_id |-> "", filename |-> "",
             chunks |-> 0]

IngestResult(ok, paper_id, filename, n) ==
    [op |-> "process_pdf", success |-> ok, paper_id |-> paper_id,
     filename |-> filename, chunks |-> n]

DeleteResult(ok, paper_id, n) ==
    [op |-> "delete_document", success |-> ok, paper_id |-> paper_id,
     filename |-> "", chunks |-> n]

IInit ==
    /\ i_used = {}
    /\ i_source = {}
    /\ i_uploads = {}
    /\ i_last = NoResult
    /\ i_text = <<>>

\* DocumentIngestion.process_pdf(file_path, filename): a new uuid4 is the
\* paper_id; nothing looks the filename up in the index. copy_ok says whether
\* shutil.copy to upload_dir succeeds; it runs after add_documents. (No graph
\* store is configured.)
process_pdf ==
    /\ UNCHANGED NotIngest
    /\ \E f \in Files, paper_id \in Uuids \ i_used, copy_ok \in BOOLEAN :
         LET chunks == chunk_text(TextLen(f))
             n == Len(chunks)
         IN /\ i_used' = i_used \cup {paper_id}
            /\ next_uid + n <= MaxChunks
            /\ IF TextLen(f) < MinTextLen \/ n = 0
               THEN /\ UNCHANGED <<index, metadata, id_to_paper, disk_index, disk_meta,
                                   next_uid, deleted_docs, i_source, i_uploads,
                                   i_text>>
                    /\ i_last' = IngestResult(FALSE, "", f, 0)
               ELSE LET start_id == ntotal
                        new_index == index \o
                            [i \in 1 .. n |-> Vector(embed_text(chunks[i]), next_uid + i)]
                        new_meta == metadata \o
                            [i \in 1 .. n |-> Chunk(next_uid + i, paper_id)]
                        new_ids == AddedIdToPaper(start_id, n, paper_id)
                    IN /\ index' = new_index
                       /\ metadata' = new_meta
                       /\ id_to_paper' = new_ids
                       /\ disk_index' = SavedIndex(new_index)
                       /\ disk_meta' = SavedMeta(new_meta, new_ids)
                       /\ next_uid' = next_uid + n
                       /\ deleted_docs' = deleted_docs \ {paper_id}
                       /\ i_source' = i_source \cup {<<paper_id, f>>}
                       /\ i_text' = i_text \o
                            [i \in 1 .. n |-> [file |-> f, chunk_id |-> i - 1]]
                       /\ IF copy_ok
                          THEN /\ i_uploads' = i_uploads \cup {paper_id}
                               /\ i_last' = IngestResult(TRUE, paper_id, f, n)
                          ELSE /\ UNCHANGED i_uploads
                               /\ i_last' = IngestResult(FALSE, "", f, 0)
    /\ UNCHANGED last_search

\* DocumentIngestion.delete_document(paper_id)
delete_document ==
    /\ UNCHANGED NotIngest
    /\ \E paper_id \in Uuids :
         LET deleted_count == Len(metadata) - Len(KeptPositions(paper_id))
         IN IF DeleteRaises(paper_id)
            THEN /\ UNCHANGED <<index, metadata, id_to_paper, disk_index, disk_meta,
                                deleted_docs, i_uploads>>
                 /\ i_last' = DeleteResult(FALSE, paper_id, 0)
            ELSE /\ IF deleted_count = 0
                    THEN UNCHANGED <<index, metadata, id_to_paper, disk_index,
                                     disk_meta, deleted_docs>>
                    ELSE /\ index' = KeptVectors(paper_id)
                         /\ metadata' = KeptChunks(paper_id)
                         /\ id_to_paper' = KeptIdToPaper(paper_id)
                         /\ disk_index' = SavedIndex(index')
                         /\ disk_meta' = SavedMeta(metadata', id_to_paper')
                         /\ deleted_docs' = deleted_docs \cup {paper_id}
                 /\ i_uploads' = i_uploads \ {paper_id}
                 /\ i_last' = DeleteResult(TRUE, paper_id, deleted_count)
    /\ UNCHANGED <<next_uid, last_search, i_used, i_source, i_text>>

INext ==
    \/ process_pdf
    \/ delete_document

(***************************************************************************)
(* Club knowledge: ClubKnowledgeIngestion, ClubEmbeddingGenerator and     *)
(* ClubVectorStore                                                         *)
(***************************************************************************)

\* The files the RoboticsClub Drive folder may hold. "Coordinators/team" is a
\* Google Doc: it is exported and saved under its own name, which has no
\* extension, and parse_file returns None for it.
ClubFiles == {"Events/RoboSprint/rules.md", "Announcements/notice.txt",
              "Coordinators/team"}

\* len(content) of the document parse_file returns; a text is modelled by its
\* length and has none of the separators '. ', '? ', '! ', blank line.
ClubTextLen(f) ==
    CASE f = "Events/RoboSprint/rules.md" -> 600
      [] f = "Announcements/notice.txt" -> 100
      [] OTHER -> 0

\* ClubDocumentParser.parse_file returns a document
ClubParses(f) == f # "Coordinators/team"

CLUB_CHUNK_SIZE == 512

CLUB_CHUNK_OVERLAP == 50

\* run_full_ingestion calls over a whole behaviour, and complete pipelines on
\* one state of the folder.
MaxClubRuns == 3

\* ClubDocumentChunker._split_text from start on: the number of chunks. The
\* start <= len(chunk) - size + overlap test is never true for these sizes.
RECURSIVE SplitCount(_, _)
SplitCount(text_len, start) ==
    IF start >= text_len THEN 0
    ELSE 1 + SplitCount(text_len, start + CLUB_CHUNK_SIZE - CLUB_CHUNK_OVERLAP)

\* ClubDocumentChunker.chunk_document: the chunks of one document, each with the
\* document's metadata, its chunk_index and total_chunks.
chunk_document(f) ==
    IF ClubTextLen(f) = 0 THEN <<>>
    ELSE [i \in 1 .. SplitCount(ClubTextLen(f), 0) |->
            [source |-> f, chunk_index |-> i - 1,
             total_chunks |-> SplitCount(ClubTextLen(f), 0)]]

\* The files in the order download_all_documents lists them: Events,
\* Announcements, Coordinators.
DownloadOrder ==
    <<"Events/RoboSprint/rules.md", "Announcements/notice.txt", "Coordinators/team">>

\* ClubDocumentChunker.chunk_multiple_documents over the parsed documents of the
\* downloaded files, from position n of DownloadOrder on.
RECURSIVE chunk_multiple_documents(_, _)
chunk_multiple_documents(files, n) ==
    IF n > Len(DownloadOrder) THEN <<>>
    ELSE (IF DownloadOrder[n] \in files /\ ClubParses(DownloadOrder[n])
          THEN chunk_document(DownloadOrder[n]) ELSE <<>>)
         \o chunk_multiple_documents(files, n + 1)

NoChunksFile == [present |-> FALSE, chunks |-> <<>>, current |-> FALSE]

\* A chunks_latest.json written in append mode.
AppendedChunksFile(old, chunks, complete) ==
    [present |-> TRUE, chunks |-> old.chunks \o chunks, current |-> complete]

\* _save_chunks_and_metadata: chunks_latest.json is opened with 'w' and holds the
\* chunks of this run alone. (current is history: the run downloaded every file of
\* the folder as it is now.)
WrittenChunksFile(old, chunks, complete) ==
    [present |-> TRUE, chunks |-> chunks, current |-> complete]

\* ClubVectorStore before create_index and after delete_index.
NoClubIndex == [present |-> FALSE, documents |-> <<>>, current |-> FALSE]

\* The sources of the indexed documents and the number of indexed vectors.
ClubSnapshot(ix) ==
    [documents |-> {ix.documents[i].source : i \in DOMAIN ix.documents},
     n_chunks |-> Len(ix.documents)]

\* The result dict of run_full_ingestion: its status, its stats and its errors
\* list. (unparsed is history: the downloaded files _parse_documents skipped.)
Summary(status, total_files, downloaded, parsed, total_chunks, errors, unparsed) ==
    [status |-> status,
     stats |-> [total_files |-> total_files, downloaded |-> downloaded,
                parsed |-> parsed, total_chunks |-> total_chunks],
     errors |-> errors, unparsed |-> unparsed]

NoSummary == Summary("none", 0, 0, 0, 0, <<>>, {})

CInit ==
    /\ cl_source = {}
    /\ cl_chunks_latest = NoChunksFile
    /\ cl_index = NoClubIndex
    /\ cl_status = "none"
    /\ cl_snapshots = <<>>
    /\ cl_runs = 0
    /\ cl_result = NoSummary

\* A file is added to or removed from the Drive folder. What was built from the
\* folder as it was is no longer current.
drive_change ==
    /\ UNCHANGED NotClub
    /\ \E f \in ClubFiles :
         cl_source' = IF f \in cl_source THEN cl_source \ {f} ELSE cl_source \cup {f}
    /\ cl_chunks_latest' = [cl_chunks_latest EXCEPT !.current = FALSE]
    /\ cl_index' = [cl_index EXCEPT !.current = FALSE]
    /\ cl_snapshots' = <<>>
    /\ UNCHANGED <<cl_status, cl_runs, cl_result>>

\* ClubKnowledgeIngestion.run_full_ingestion. failed is the set of files whose
\* download raised.
run_full_ingestion ==
    /\ UNCHANGED NotClub
    /\ cl_runs < MaxClubRuns
    /\ cl_runs' = cl_runs + 1
    /\ \E failed \in SUBSET cl_source :
         LET downloaded == cl_source \ failed
             parsed == {f \in downloaded : ClubParses(f)}
             chunks == chunk_multiple_documents(downloaded, 1)
             errors == IF downloaded = {}
                       THEN <<"No documents downloaded from Google Drive">>
                       ELSE IF parsed = {}
                       THEN <<"No documents successfully parsed">>
                       ELSE IF Len(chunks) = 0
                       THEN <<"No chunks created from documents">>
                       ELSE IF failed # {}
                       THEN <<"files had errors during download">>
                       ELSE <<>>
         IN /\ IF downloaded = {} \/ parsed = {} \/ Len(chunks) = 0
               THEN /\ cl_status' = "failed"
                    /\ UNCHANGED cl_chunks_latest
               ELSE /\ cl_chunks_latest' =
                           WrittenChunksFile(cl_chunks_latest, chunks, failed = {})
                    /\ cl_status' = IF failed # {} THEN "partial" ELSE "success"
            /\ cl_result' = Summary(cl_status', Cardinality(cl_source),
                                    Cardinality(downloaded),
                                    IF downloaded = {} THEN 0 ELSE Cardinality(parsed),
                                    IF parsed = {} THEN 0 ELSE Len(chunks),
                                    errors, downloaded \ parsed)
    /\ UNCHANGED <<cl_source, cl_index, cl_snapshots>>

\* What the embedding step and create_index can meet: the model embeds the
\* chunks into vectors of the configured dimension, the model call fails, or the
\* vectors do not have the configured dimension.
EmbedOutcomes == {"ok", "no_embeddings", "wrong_dimension"}

\* The index left by the replacement step of generate_embeddings_from_chunks
\* when create_index does not succeed: delete_index has run before create_index.
IndexAfterFailedCreate(old) == NoClubIndex

\* ClubEmbeddingGenerator.generate_embeddings_from_chunks: the chunks of
\* chunks_latest.json are embedded, delete_index removes the old index and
\* create_index builds a new one from the chunks.
generate_embeddings_from_chunks ==
    /\ UNCHANGED NotClub
    /\ Len(cl_snapshots) < MaxClubRuns
    /\ \E outcome \in EmbedOutcomes :
         IF ~cl_chunks_latest.present \/ Len(cl_chunks_latest.chunks) = 0
            \/ outcome = "no_embeddings"
         THEN /\ cl_status' = "embed_failed"
              /\ UNCHANGED <<cl_index, cl_snapshots>>
         ELSE IF outcome = "wrong_dimension"
         THEN /\ cl_status' = "embed_failed"
              /\ cl_index' = IndexAfterFailedCreate(cl_index)
              /\ UNCHANGED cl_snapshots
         ELSE /\ cl_index' = [present |-> TRUE, documents |-> cl_chunks_latest.chunks,
                              current |-> cl_chunks_latest.current]
              /\ cl_status' = "embed_success"
              /\ cl_snapshots' = IF cl_chunks_latest.current
                                 THEN Append(cl_snapshots, ClubSnapshot(cl_index'))
                                 ELSE cl_snapshots
    /\ UNCHANGED <<cl_source, cl_chunks_latest, cl_runs, cl_result>>

CNext ==
    \/ drive_change
    \/ run_full_ingestion
    \/ generate_embeddings_from_chunks

(***************************************************************************)
(* DocumentChunker, on texts of characters                                 *)
(***************************************************************************)

\* The characters of a text: a letter, the sentence ends and the blank.
Alphabet == {"a", ".", "!", " "}

\* Longest text and largest chunk_size of a chunk_text call.
MaxTextLen == 6

MaxChunkSize == 5

Texts == UNION {[1 .. n -> Alphabet] : n \in 0 .. MaxTextLen}

Max(a, b) == IF a >= b THEN a ELSE b

\* text[a:b] of Python: a negative index counts from the end, and both are
\* brought into 0 .. len(text).
Slice(text, a, b) ==
    LET lo == IF a < 0 THEN Max(a + Len(text), 0) ELSE Min(a, Len(text))
        hi == IF b < 0 THEN Max(b + Len(text), 0) ELSE Min(b, Len(text))
    IN IF lo >= hi THEN <<>> ELSE SubSeq(text, lo + 1, hi)

\* text.strip()
Strip(text) ==
    LET solid == {i \in DOMAIN text : text[i] # " "}
    IN IF solid = {} THEN <<>>
       ELSE SubSeq(text, CHOOSE i \in solid : \A j \in solid : i <= j,
                         CHOOSE i \in solid : \A j \in solid : i >= j)

\* text.rfind(c): the 0-based index of the last c, -1 if there is none.
RFind(text, c) ==
    LET at == {i \in DOMAIN text : text[i] = c}
    IN IF at = {} THEN 0 - 1 ELSE (CHOOSE i \in at : \A j \in at : i >= j) - 1

\* DocumentChunker._clean_text: every run of whitespace becomes one blank, then
\* strip. (The alphabet has no control character.)
clean_text(text) ==
    LET kept == SelectSeq([i \in DOMAIN text |-> i],
                          LAMBDA i : text[i] # " " \/ i = 1 \/ text[i - 1] # " ")
    IN Strip([n \in DOMAIN kept |-> text[kept[n]]])

\* A loop that starts the next chunk where this one ends.
NextStartAtEnd(end, overlap) == end

\* start = end - self.chunk_overlap
NextStart(end, overlap) == end - overlap

\* The index in the window of the last '.' or '!' (the alphabet has no '?', and a
\* cleaned text has no blank line), -1 if there is none.
LastTerminator(window) == Max(RFind(window, "."), RFind(window, "!"))

\* The chunks put together again from position n on: of every chunk but the
\* first, the first overlap characters are dropped.
RECURSIVE Reassemble(_, _, _)
Reassemble(chunks, n, overlap) ==
    IF n > Len(chunks) THEN <<>>
    ELSE (IF n = 1 THEN chunks[n].text
          ELSE Slice(chunks[n].text, overlap, Len(chunks[n].text)))
         \o Reassemble(chunks, n + 1, overlap)

\* A chunk_text call that has not happened.
NoChunking == [called |-> FALSE, chunks |-> <<>>, diverges |-> FALSE, text |-> <<>>]

\* The while loop of chunk_text on the cleaned text, from start on. The loop's
\* future depends on start alone, so a start seen before means it never ends.
RECURSIVE ChunkFrom(_, _, _, _, _)
ChunkFrom(text, size, overlap, start, seen) ==
    IF ~(start < Len(text)) THEN [chunks |-> <<>>, diverges |-> FALSE]
    ELSE IF start \in seen THEN [chunks |-> <<>>, diverges |-> TRUE]
    ELSE LET end0 == start + size
             window == Slice(text, start, end0)
             \* after cleaning the text has no newline: rfind('\n') is -1
             break_point == Max(RFind(window, "."), 0 - 1)
             end == IF end0 < Len(text) /\ break_point > size \div 2
                    THEN start + break_point + 1 ELSE end0
             body == Strip(Slice(text, start, end))
             here == IF body = <<>> THEN <<>>
                     ELSE <<[text |-> body, start_char |-> start, end_char |-> end]>>
             next_start == NextStart(end, overlap)
         IN IF next_start >= Len(text) - overlap
            THEN [chunks |-> here, diverges |-> FALSE]
            ELSE LET rest == ChunkFrom(text, size, overlap, next_start,
                                       seen \cup {start})
                 IN [chunks |-> here \o rest.chunks, diverges |-> rest.diverges]

\* DocumentChunker.chunk_text(text) with chunk_size size and chunk_overlap
\* overlap; chunk_id is the position in the list - 1.
DocumentChunker_chunk_text(text, size, overlap) ==
    IF Strip(text) = <<>>
    THEN [called |-> TRUE, chunks |-> <<>>, diverges |-> FALSE, text |-> <<>>]
    ELSE LET run == ChunkFrom(clean_text(text), size, overlap, 0, {})
         IN [called |-> TRUE, chunks |-> run.chunks, diverges |-> run.diverges,
             text |-> clean_text(text)]

KInit ==
    /\ k_text = <<>>
    /\ k_size = 1
    /\ k_overlap = 0
    /\ k_result = NoChunking

\* One chunk_text call of a DocumentChunker(chunk_size, chunk_overlap) with
\* chunk_size >= 1 and 0 <= chunk_overlap < chunk_size.
chunk_call ==
    /\ UNCHANGED NotChunker
    /\ ~k_result.called
    /\ \E text \in Texts, size \in 1 .. MaxChunkSize :
         \E overlap \in 0 .. (size - 1) :
            /\ k_text' = text
            /\ k_size' = size
            /\ k_overlap' = overlap
            /\ k_result' = DocumentChunker_chunk_text(text, size, overlap)

KNext == chunk_call

(***************************************************************************)
(* collaboration_agent and github_agent                                    *)
(***************************************************************************)

\* Tool names the LLM may put into a collaboration plan; "post_update" has
\* neither "gmail" nor "calendar" nor "event" in its name.
CollabTools == {"search_gmail", "send_gmail_message", "create_calendar_event",
                "post_update"}

\* The read tools github_agent executes, and the tool names of its plans.
GithubReadTools == {"search_repositories", "search_code", "get_repository"}

GithubTools == GithubReadTools \cup {"create_repository"}

\* Operations of one collaboration plan.
MaxOps == 2

Operation(tool, needs_approval) == [tool |-> tool, needs_approval |-> needs_approval]

\* The server collaboration_agent finds for a tool name.
ServerOf(tool) ==
    CASE tool \in {"search_gmail", "send_gmail_message"} -> "gmail"
      [] tool = "create_calendar_event" -> "google_calendar"
      [] OTHER -> "none"

PendingRecord(agent, action, n) == [agent |-> agent, action |-> action, op |-> n]

\* The for loop of collaboration_agent from operation n on; the call_tool call
\* for operation raise_at raises, which ends the loop in the except branch.
RECURSIVE RunOperations(_, _, _)
RunOperations(ops, n, raise_at) ==
    IF n > Len(ops) THEN [calls |-> {}, pending |-> <<>>, errors |-> 0]
    ELSE IF ServerOf(ops[n].tool) = "none" THEN RunOperations(ops, n + 1, raise_at)
    ELSE IF ~ops[n].needs_approval
    THEN IF n = raise_at THEN [calls |-> {n}, pending |-> <<>>, errors |-> 1]
         ELSE LET rest == RunOperations(ops, n + 1, raise_at)
              IN [rest EXCEPT !.calls = @ \cup {n}]
    ELSE LET rest == RunOperations(ops, n + 1, raise_at)
         IN [rest EXCEPT !.pending =
                <<PendingRecord("collaboration", ops[n].tool, n)>> \o @]

HInit ==
    /\ h_pc = "idle"
    /\ h_agent = "none"
    /\ h_plan = <<>>
    /\ h_calls = {}
    /\ h_pending = <<>>
    /\ h_errors = 0

\* collaboration_agent(state) with "collaboration" among the intents and an LLM
\* reply that holds a JSON plan.
collaboration_agent ==
    /\ UNCHANGED NotApproval
    /\ h_pc = "idle"
    /\ h_pc' = "done"
    /\ h_agent' = "collaboration"
    /\ \E len \in 0 .. MaxOps, raise_at \in 0 .. MaxOps :
         \E ops \in [1 .. len -> {Operation(t, a) : t \in CollabTools, a \in BOOLEAN}] :
            LET run == RunOperations(ops, 1, raise_at)
            IN /\ h_plan' = ops
               /\ h_calls' = run.calls
               /\ h_pending' = run.pending
               /\ h_errors' = run.errors

\* github_agent(state) with "github" among the intents and an LLM reply that
\* holds a JSON plan: the plan is one operation. raises: call_tool raises.
github_agent ==
    /\ UNCHANGED NotApproval
    /\ h_pc = "idle"
    /\ h_pc' = "done"
    /\ h_agent' = "github"
    /\ \E tool \in GithubTools, needs_approval \in BOOLEAN, raises \in BOOLEAN :
         /\ h_plan' = <<Operation(tool, needs_approval)>>
         /\ IF tool \in GithubReadTools
            THEN /\ h_calls' = {1}
                 /\ h_pending' = <<>>
                 /\ h_errors' = IF raises THEN 1 ELSE 0
            ELSE IF needs_approval
            THEN /\ h_calls' = {}
                 /\ h_pending' = <<PendingRecord("github", tool, 1)>>
                 /\ h_errors' = 0
            ELSE /\ h_calls' = {}
                 /\ h_pending' = <<>>
                 /\ h_errors' = 0

HNext ==
    \/ collaboration_agent
    \/ github_agent

(***************************************************************************)
(* AgentManager: the MCP tool registry                                     *)
(***************************************************************************)

\* The keys _configure_servers can put into self._server_config.
Servers == {"gmail", "google_drive", "google_calendar", "rag"}

\* A tool each server lists (of the several it has).
ToolsOf(server) ==
    CASE server = "gmail" -> {"search_gmail"}
      [] server = "google_drive" -> {"search_drive"}
      [] server = "google_calendar" -> {"list_calendars"}
      [] server = "rag" -> {"retrieve_context"}
      [] OTHER -> {}

ToolsOfAll(servers) == UNION {ToolsOf(sv) : sv \in servers}

\* The server and tool names call_tool is called with.
ServerNames == Servers \cup {"no_such_server"}

ToolNames == ToolsOfAll(Servers) \cup {"no_such_tool"}

\* Settings: enable_gmail, enable_google_drive and enable_google_calendar are
\* fields with defaults; enable_rag is no field of Settings and exists only if
\* the environment defines it (extra = "allow").
SettingsSpace ==
    [enable_gmail : BOOLEAN, enable_google_drive : BOOLEAN,
     enable_google_calendar : BOOLEAN, enable_rag : {"undefined", "set"}]

\* The servers _configure_servers adds before it returns or raises.
Configured(st) ==
    {sv \in Servers :
        \/ sv = "gmail" /\ st.enable_gmail
        \/ sv = "google_drive" /\ st.enable_google_drive
        \/ sv = "google_calendar" /\ st.enable_google_calendar
        \/ sv = "rag" /\ st.enable_rag = "set"}

\* What self.mcp_client.get_tools() gives when the servers `up` of `config`
\* start and list their tools: the call gathers all servers and raises if one
\* of them fails; initialize's except branch then sets self.tools = [].
LoadedTools(config, up) == IF config \subseteq up THEN ToolsOfAll(config) ELSE {}

\* The tool call_tool picks: the first of self.tools with t.name = tool_name,
\* whatever server_name is.
FindTool(server_name, tool_name) == IF tool_name \in m_tools THEN tool_name ELSE "none"

NoCall == [server |-> "none", tool |-> "none", enumerated |-> FALSE, outcome |-> "none"]

MInit ==
    /\ m_settings = {}
    /\ m_initialized = FALSE
    /\ m_server_config = {}
    /\ m_up = {}
    /\ m_tools = {}
    /\ m_last = NoCall

\* AgentManager.initialize
initialize ==
    /\ UNCHANGED NotTools
    /\ \E st \in SettingsSpace, up \in SUBSET Servers :
         /\ m_settings # {} => st \in m_settings
         /\ m_settings' = {st}
         /\ IF m_initialized
            THEN UNCHANGED <<m_initialized, m_server_config, m_up, m_tools>>
            ELSE /\ m_server_config' = m_server_config \cup Configured(st)
                 /\ IF st.enable_rag = "undefined"
                    THEN \* settings.enable_rag raises AttributeError
                         UNCHANGED <<m_initialized, m_up, m_tools>>
                    ELSE /\ m_initialized' = TRUE
                         /\ m_up' = up \cap m_server_config'
                         /\ m_tools' = LoadedTools(m_server_config', up)
    /\ UNCHANGED m_last

\* AgentManager.shutdown
shutdown ==
    /\ UNCHANGED NotTools
    /\ m_initialized' = FALSE
    /\ UNCHANGED <<m_settings, m_server_config, m_up, m_tools, m_last>>

\* AgentManager.call_tool(server_name, tool_name, parameters)
call_tool ==
    /\ UNCHANGED NotTools
    /\ \E server_name \in ServerNames, tool_name \in ToolNames, raises \in BOOLEAN :
         m_last' = [server |-> server_name, tool |-> tool_name,
                    enumerated |-> /\ server_name \in m_server_config
                                   /\ tool_name \in ToolsOf(server_name)
                                   /\ tool_name \in m_tools,
                    outcome |-> IF ~m_initialized THEN "not_initialized"
                                ELSE IF FindTool(server_name, tool_name) = "none"
                                THEN "not_found"
                                ELSE IF raises THEN "tool_raised" ELSE "tool_returned"]
    /\ UNCHANGED <<m_settings, m_initialized, m_server_config, m_up, m_tools>>

MNext ==
    \/ initialize
    \/ shutdown
    \/ call_tool

(***************************************************************************)
(* SmartOrchestrator graph                                                 *)
(***************************************************************************)

\* Length of each query the planner writes into the plan.
QueryLen == 20

\* Lengths of the text a provider's search gets back.
RawShort == 300

RawLong == 2000

\* Length of the message of an exception a provider catches.
ErrLen == 40

\* Length of the content of one row the club retriever returns.
RowLen == 600

\* Tasks in a plan.
MaxTasks == 2

\* content[:1000] of WebSearchProvider.search
WebContentLimit == 1000

\* output[:1500] of RagSearchProvider.search
RagContentLimit == 1500

\* [:3000] of gather_mixed_context_node
MixedBudget == 3000

\* plan.search_queries[:2], plan.rag_queries[:2], plan.club_queries[:2]
QueryLimit == 2

\* error_msg[:100] of the web and club providers, error_msg[:200] of the rag one
ErrLimit == 100

RagErrLimit == 200

\* len("Wikipedia search failed for: " + ". Error: ")
WebFailTextLen == 38

\* len("RAG search failed for: " + ". Error: ")
RagFailTextLen == 32

\* len("RAG search tool not available")
RagNoToolTextLen == 29

\* len("Club search failed for: " + ". Error: ")
ClubFailTextLen == 33

\* len("No club information found for this query.")
ClubNoRowsTextLen == 41

\* len("Result 1 (Relevance: 0.50):\n"), and the "\n\n" that ends each row
ClubRowHeadLen == 28

\* len("[Web Search: '" + "']\n"), the same for "[RAG Search: '", and for "[Club Search: '"
WebHeaderLen == 17

RagHeaderLen == 17

ClubHeaderLen == 18

\* len("\n\n"), the separator of the joins
SepLen == 2

\* A ContextItem: its source, the length of its content, its relevance_score as
\* the fraction rel_num / rel_den of hundredths, and the position of its query.
ContextItem(source, len, num, den, qpos) ==
    [source |-> source, len |-> len, rel_num |-> num, rel_den |-> den, qpos |-> qpos]

\* What one provider search can meet.
WebOutcomes == {[kind |-> "ok", raw |-> RawShort], [kind |-> "ok", raw |-> RawLong],
                [kind |-> "error", err |-> ErrLen]}

RagOutcomes == WebOutcomes \cup {[kind |-> "no_tool"]}

ClubRow(len, score) == [len |-> len, score |-> score]

ClubOutcomes ==
    {[kind |-> "rows", rows |-> <<ClubRow(RowLen, 40)>>],
     [kind |-> "rows", rows |-> <<ClubRow(RowLen, 90), ClubRow(RowLen, 40)>>],
     [kind |-> "rows", rows |-> <<ClubRow(RowLen, 90), ClubRow(RowLen, 90), ClubRow(RowLen, 90)>>],
     [kind |-> "rows", rows |-> <<ClubRow(RowLen, 140)>>],
     [kind |-> "no_rows"],
     [kind |-> "error", err |-> ErrLen]}

RECURSIVE SumSeq(_)
SumSeq(seq) == IF seq = <<>> THEN 0 ELSE Head(seq) + SumSeq(Tail(seq))

\* WebSearchProvider.search
WebSearch(out, qpos) ==
    IF out.kind = "ok"
    THEN ContextItem("web_search", Min(out.raw, WebContentLimit), 90, 1, qpos)
    ELSE ContextItem("web_search", WebFailTextLen + QueryLen + Min(out.err, ErrLimit),
                     10, 1, qpos)

\* RagSearchProvider.search
RagSearch(out, qpos) ==
    IF out.kind = "ok"
    THEN ContextItem("rag", Min(out.raw, RagContentLimit), 85, 1, qpos)
    ELSE IF out.kind = "no_tool"
    THEN ContextItem("rag", RagNoToolTextLen, 10, 1, qpos)
    ELSE ContextItem("rag", RagFailTextLen + QueryLen + Min(out.err, RagErrLimit),
                     10, 1, qpos)

\* ContextItem.relevance_score: Field(ge=0, le=1), scores being counted in
\* hundredths.
ValidRelevance(num, den) == 0 <= num /\ num <= 100 * den

\* ClubSearchProvider.search: the rows folded into one item whose relevance is
\* total_score / len(results). A relevance ContextItem refuses raises inside
\* the try block, and search returns its failure item, the error text cut to
\* ErrLimit characters.
ClubSearch(out, qpos) ==
    IF out.kind = "rows"
    THEN LET total_score == SumSeq([n \in DOMAIN out.rows |-> out.rows[n].score])
         IN IF ValidRelevance(total_score, Len(out.rows))
            THEN ContextItem("club_search",
                             SumSeq([n \in DOMAIN out.rows |->
                                        ClubRowHeadLen + out.rows[n].len + SepLen]) - SepLen,
                             total_score, Len(out.rows), qpos)
            ELSE ContextItem("club_search", ClubFailTextLen + QueryLen + ErrLimit,
                             10, 1, qpos)
    ELSE IF out.kind = "no_rows"
    THEN ContextItem("club_search", ClubNoRowsTextLen, 0, 1, qpos)
    ELSE ContextItem("club_search", ClubFailTextLen + QueryLen + Min(out.err, ErrLimit),
                     10, 1, qpos)

\* a.relevance_score > b.relevance_score
MoreRelevant(a, b) == a.rel_num * b.rel_den > b.rel_num * a.rel_den

\* sorted(items, key=relevance_score, reverse=True): a stable sort, so items of
\* equal relevance keep their order.
RECURSIVE SortedByRelevance(_)
SortedByRelevance(items) ==
    IF items = <<>> THEN <<>>
    ELSE LET best == CHOOSE i \in DOMAIN items :
                        /\ \A j \in DOMAIN items : ~MoreRelevant(items[j], items[i])
                        /\ \A j \in DOMAIN items :
                              j < i => MoreRelevant(items[i], items[j])
             rest == [n \in 1 .. (Len(items) - 1) |->
                        IF n < best THEN items[n] ELSE items[n + 1]]
         IN <<items[best]>> \o SortedByRelevance(rest)

HeaderLen(source) ==
    IF source = "web_search" THEN WebHeaderLen + QueryLen
    ELSE IF source = "rag" THEN RagHeaderLen + QueryLen
    ELSE ClubHeaderLen + QueryLen

\* Length of "\n\n".join(parts), given the lengths of the parts.
JoinLen(lens) ==
    IF lens = <<>> THEN 0
    ELSE SumSeq(lens) + SepLen * (Len(lens) - 1)

\* The combined text a single-provider node builds from its items.
Combine(items) ==
    LET sorted == SortedByRelevance(items)
    IN [len |-> JoinLen([n \in DOMAIN sorted |-> HeaderLen(sorted[n].source) + sorted[n].len]),
        items |-> sorted]

NoContext == [len |-> 0, items |-> <<>>]

\* The items of a provider for the first QueryLimit of nq queries, given the
\* outcome of each search.
Searched(nq) == 1 .. Min(nq, QueryLimit)

\* The ways a plan can ask for context.
ContextPlans ==
    {[needs_context |-> FALSE, context_type |-> "none", search_queries |-> 0,
      rag_queries |-> 0, club_queries |-> 0],
     [needs_context |-> TRUE, context_type |-> "none", search_queries |-> 1,
      rag_queries |-> 0, club_queries |-> 0],
     [needs_context |-> TRUE, context_type |-> "web", search_queries |-> 3,
      rag_queries |-> 0, club_queries |-> 0],
     [needs_context |-> TRUE, context_type |-> "web", search_queries |-> 0,
      rag_queries |-> 0, club_queries |-> 0],
     [needs_context |-> TRUE, context_type |-> "rag", search_queries |-> 0,
      rag_queries |-> 2, club_queries |-> 0],
     [needs_context |-> TRUE, context_type |-> "club", search_queries |-> 0,
      rag_queries |-> 0, club_queries |-> 2],
     [needs_context |-> TRUE, context_type |-> "mixed", search_queries |-> 1,
      rag_queries |-> 1, club_queries |-> 1],
     [needs_context |-> TRUE, context_type |-> "mixed", search_queries |-> 2,
      rag_queries |-> 2, club_queries |-> 0]}

\* The tasks the planner picks from.
WorkerTask(id, worker_type, google_service, requires_context) ==
    [id |-> id, worker_type |-> worker_type, google_service |-> google_service,
     requires_context |-> requires_context]

TaskPool ==
    {WorkerTask(1, "conversational", "none", TRUE),
     WorkerTask(2, "github", "none", FALSE),
     WorkerTask(3, "gmail", "gmail", TRUE),
     WorkerTask(4, "calendar", "none", FALSE)}

\* The task lists of a plan: up to MaxTasks tasks of the pool, in any order (the
\* planner's structured output fixes neither the order nor the ids).
TaskLists ==
    {tl \in UNION {[1 .. n -> TaskPool] : n \in 0 .. MaxTasks} :
        \A i, j \in DOMAIN tl : i # j => tl[i] # tl[j]}

NoPlan == [present |-> FALSE]

\* route_after_planning
route_after_planning(p) ==
    IF p = NoPlan THEN "execute_tasks"
    ELSE IF ~p.needs_context THEN "execute_tasks"
    ELSE IF p.context_type = "web" THEN "web_search"
    ELSE IF p.context_type = "rag" THEN "rag_search"
    ELSE IF p.context_type = "club" THEN "club_search"
    ELSE IF p.context_type = "mixed" THEN "gather_mixed_context"
    ELSE "execute_tasks"

\* The worker node fanout_to_workers sends a task to.
WorkerNodeOf(task) ==
    IF task.worker_type = "github" THEN "github_worker"
    ELSE IF task.google_service # "none" THEN "google_workspace_worker"
    ELSE "conversational_worker"

\* A fan-out that sends no task to the conversational worker.
fanout_without_conversational(tl, context) ==
    SelectSeq([i \in DOMAIN tl |->
                  [node |-> WorkerNodeOf(tl[i]), task |-> tl[i],
                   context |-> tl[i].requires_context /\ context.len > 0]],
              LAMBDA snd : snd.node # "conversational_worker")

\* fanout_to_workers: one Send per task, in the order of the task list; the
\* payload carries the context when the task requires it and there is some.
fanout_to_workers(tl, context) ==
    [i \in DOMAIN tl |->
        [node |-> WorkerNodeOf(tl[i]), task |-> tl[i],
         context |-> tl[i].requires_context /\ context.len > 0]]

\* What can happen inside a worker.
WorkerOutcomes(node) ==
    IF node = "conversational_worker" THEN {"ok", "exception"}
    ELSE {"ok", "exception", "not_configured"}

\* The worker_type a worker writes into its TaskResult.
ResultWorkerType(send) ==
    IF send.node = "github_worker" THEN "github"
    ELSE IF send.node = "google_workspace_worker" THEN "google_gmail"
    ELSE "conversational"

\* The TaskResult a worker's execute returns: its try/except turns a failure
\* into success = False with the error text as output.
TaskResult(send, outcome) ==
    [task_id |-> send.task.id,
     worker_type |-> ResultWorkerType(send),
     success |-> outcome = "ok",
     output |-> IF outcome = "ok" THEN "answer" ELSE "error text",
     used_context |-> send.context,
     error |-> IF outcome = "exception" THEN "error text" ELSE "none"]

NoWrite == [written |-> FALSE]

\* The queries SmartOrchestrator.process is called with (besides empty ones).
SmartQueries == {"delete all my emails", "what is pid control"}

\* The queries process refuses: empty or blank, and one of more than 5000
\* characters.
BlankQueries == {"", "   "}

LongQuery == "a query of 5001 characters"

\* The "success" of the dict process returns: True after graph.invoke returned.
ProcessSuccess == o_pc = "END"

\* An aggregator that asks the LLM whenever there is a result.
AggregatorCallsLLMForAny(res) == Len(res) >= 1

\* results_aggregator_node calls llm.invoke: not for no result, not for one.
AggregatorCallsLLM(res) == Len(res) >= 2

OInit ==
    /\ o_query = "none"
    /\ o_agg_llm = 0
    /\ o_club_rows = <<>>
    /\ o_pc = "idle"
    /\ plan = NoPlan
    /\ tasks = <<>>
    /\ web_context = <<>>
    /\ rag_context = <<>>
    /\ club_context = <<>>
    /\ combined_context = NoContext
    /\ worker_writes = <<>>
    /\ results = <<>>
    /\ o_final_response = ""
    /\ o_ran = {}
    /\ o_agg_input = <<>>

Sends == fanout_to_workers(tasks, combined_context)

\* The items a provider gathers for the searched queries, given each outcome.
WebItems(outs) == [n \in DOMAIN outs |-> WebSearch(outs[n], n)]

RagItems(outs) == [n \in DOMAIN outs |-> RagSearch(outs[n], n)]

ClubItems(outs) == [n \in DOMAIN outs |-> ClubSearch(outs[n], n)]

\* combined_parts of gather_mixed_context_node: the non-empty combined texts
NonEmptyParts(parts) == SelectSeq(parts, LAMBDA c : c.len > 0)

RECURSIVE Flatten(_)
Flatten(seqs) == IF seqs = <<>> THEN <<>> ELSE Head(seqs) \o Flatten(Tail(seqs))

\* "\n\n".join(combined_parts)[:3000]; items lists the items of the joined text
\* in its order (the cut may fall inside one of them).
MixedCombine(parts) ==
    LET kept == NonEmptyParts(parts)
    IN [len |-> Min(JoinLen([n \in DOMAIN kept |-> kept[n].len]), MixedBudget),
        items |-> Flatten([n \in DOMAIN kept |-> kept[n].items])]

\* SmartOrchestrator.process: an empty query is answered at once, any other is
\* handed to the graph.
process ==
    /\ UNCHANGED NotSmart
    /\ o_pc = "idle"
    /\ \E q \in SmartQueries \cup BlankQueries \cup {LongQuery} :
         /\ o_query' = q
         /\ IF q \in BlankQueries
            THEN /\ o_pc' = "rejected"
                 /\ o_final_response' = "Please provide a valid query."
            ELSE IF q = LongQuery
            THEN /\ o_pc' = "rejected"
                 /\ o_final_response' = "Query is too long."
            ELSE /\ o_pc' = "planning"
                 /\ UNCHANGED o_final_response
    /\ UNCHANGED <<o_agg_llm, o_club_rows>>
    /\ UNCHANGED <<plan, tasks, web_context, rag_context, club_context,
                   combined_context, worker_writes, results, o_ran, o_agg_input>>

\* planning_agent_node and the conditional edge route_after_planning. The node
\* re-raises what the planner LLM raises, which ends graph.invoke; process
\* answers with its error text.
planning_agent_node ==
    /\ UNCHANGED NotSmart
    /\ UNCHANGED <<o_query, o_agg_llm, o_club_rows>>
    /\ o_pc = "planning"
    /\ o_ran' = o_ran \cup {"planning"}
    /\ \/ \E cp \in ContextPlans, tl \in TaskLists :
            /\ plan' = [needs_context |-> cp.needs_context,
                        context_type |-> cp.context_type,
                        search_queries |-> cp.search_queries,
                        rag_queries |-> cp.rag_queries,
                        club_queries |-> cp.club_queries,
                        tasks |-> tl]
            /\ tasks' = tl
            /\ o_pc' = route_after_planning(plan')
            /\ UNCHANGED o_final_response
       \/ /\ o_pc' = "error"
          /\ o_final_response' = "orchestrator error"
          /\ UNCHANGED <<plan, tasks>>
    /\ UNCHANGED <<web_context, rag_context, club_context, combined_context,
                   worker_writes, results, o_agg_input>>

web_search_node ==
    /\ UNCHANGED NotSmart
    /\ UNCHANGED <<o_query, o_agg_llm, o_club_rows>>
    /\ o_pc = "web_search"
    /\ \E outs \in [Searched(plan.search_queries) -> WebOutcomes] :
         /\ web_context' = WebItems(outs)
         /\ combined_context' = Combine(WebItems(outs))
    /\ o_pc' = "execute_tasks"
    /\ o_ran' = o_ran \cup {"web_search"}
    /\ UNCHANGED <<plan, tasks, rag_context, club_context, worker_writes, results,
                   o_final_response, o_agg_input>>

rag_search_node ==
    /\ UNCHANGED NotSmart
    /\ UNCHANGED <<o_query, o_agg_llm, o_club_rows>>
    /\ o_pc = "rag_search"
    /\ \E outs \in [Searched(plan.rag_queries) -> RagOutcomes] :
         /\ rag_context' = RagItems(outs)
         /\ combined_context' = Combine(RagItems(outs))
    /\ o_pc' = "execute_tasks"
    /\ o_ran' = o_ran \cup {"rag_search"}
    /\ UNCHANGED <<plan, tasks, web_context, club_context, worker_writes, results,
                   o_final_response, o_agg_input>>

club_search_node ==
    /\ UNCHANGED NotSmart
    /\ UNCHANGED <<o_query, o_agg_llm>>
    /\ o_pc = "club_search"
    /\ \E outs \in [Searched(plan.club_queries) -> ClubOutcomes] :
         /\ club_context' = ClubItems(outs)
         /\ o_club_rows' = outs
         /\ combined_context' = Combine(ClubItems(outs))
    /\ o_pc' = "execute_tasks"
    /\ o_ran' = o_ran \cup {"club_search"}
    /\ UNCHANGED <<plan, tasks, web_context, rag_context, worker_writes, results,
                   o_final_response, o_agg_input>>

\* gather_mixed_context_node: the three single-provider nodes, called in the
\* order web, rag, club for the query lists that are not empty.
gather_mixed_context_node ==
    /\ UNCHANGED NotSmart
    /\ UNCHANGED <<o_query, o_agg_llm>>
    /\ o_pc = "gather_mixed_context"
    /\ \E wouts \in [Searched(plan.search_queries) -> WebOutcomes],
          routs \in [Searched(plan.rag_queries) -> RagOutcomes],
          couts \in [Searched(plan.club_queries) -> ClubOutcomes] :
         LET all_contexts == SortedByRelevance(
                                WebItems(wouts) \o RagItems(routs) \o ClubItems(couts))
         IN /\ web_context' = SelectSeq(all_contexts, LAMBDA c : c.source = "web_search")
            /\ rag_context' = SelectSeq(all_contexts, LAMBDA c : c.source = "rag")
            /\ club_context' = SelectSeq(all_contexts, LAMBDA c : c.source = "club_search")
            /\ o_club_rows' = couts
            /\ combined_context' = MixedCombine(<<Combine(WebItems(wouts)),
                                                  Combine(RagItems(routs)),
                                                  Combine(ClubItems(couts))>>)
    /\ o_pc' = "execute_tasks"
    /\ o_ran' = o_ran \cup {"gather_mixed_context"}
    /\ UNCHANGED <<plan, tasks, worker_writes, results, o_final_response, o_agg_input>>

\* Node execute_tasks (a pass-through) and its conditional edge
\* fanout_to_workers. With no Send returned the graph schedules no node and ends.
execute_tasks ==
    /\ UNCHANGED NotSmart
    /\ UNCHANGED <<o_query, o_agg_llm, o_club_rows>>
    /\ o_pc = "execute_tasks"
    /\ worker_writes' = [i \in DOMAIN Sends |-> NoWrite]
    /\ o_pc' = IF Sends = <<>> THEN "END" ELSE "workers"
    /\ o_ran' = o_ran \cup {"execute_tasks"}
    /\ UNCHANGED <<plan, tasks, web_context, rag_context, club_context,
                   combined_context, results, o_final_response, o_agg_input>>

\* github_worker_node, google_workspace_worker_node, conversational_worker_node:
\* the worker of one Send finishes and returns {"results": [result]}. The
\* workers of a fan-out run concurrently, so they finish in any order.
worker_node ==
    /\ UNCHANGED NotSmart
    /\ UNCHANGED <<o_query, o_agg_llm, o_club_rows>>
    /\ o_pc = "workers"
    /\ \E i \in DOMAIN Sends :
         /\ worker_writes[i] = NoWrite
         /\ \E outcome \in WorkerOutcomes(Sends[i].node) :
              worker_writes' = [worker_writes EXCEPT
                                  ![i] = [written |-> TRUE, outcome |-> outcome,
                                          result |-> TaskResult(Sends[i], outcome)]]
         /\ o_ran' = o_ran \cup {Sends[i].node}
    /\ UNCHANGED <<o_pc, plan, tasks, web_context, rag_context, club_context,
                   combined_context, results, o_final_response, o_agg_input>>

\* The end of the workers' superstep: the graph applies the workers' writes to
\* the channel results (reducer operator.add) in the order of the Sends.
apply_worker_writes ==
    /\ UNCHANGED NotSmart
    /\ UNCHANGED <<o_query, o_agg_llm, o_club_rows>>
    /\ o_pc = "workers"
    /\ \A i \in DOMAIN worker_writes : worker_writes[i] # NoWrite
    /\ results' = results \o [i \in DOMAIN worker_writes |-> worker_writes[i].result]
    /\ o_pc' = "aggregator"
    /\ UNCHANGED <<plan, tasks, web_context, rag_context, club_context,
                   combined_context, worker_writes, o_final_response, o_ran, o_agg_input>>

\* results_aggregator_node; the LLM call that fuses two results or more is not
\* guarded, so its exception ends graph.invoke.
results_aggregator_node ==
    /\ UNCHANGED NotSmart
    /\ UNCHANGED <<o_query, o_club_rows>>
    /\ o_pc = "aggregator"
    /\ o_agg_input' = results
    /\ o_ran' = o_ran \cup {"aggregator"}
    /\ o_agg_llm' = IF AggregatorCallsLLM(results) THEN o_agg_llm + 1 ELSE o_agg_llm
    /\ IF results = <<>>
       THEN o_final_response' = "No tasks were executed." /\ o_pc' = "END"
       ELSE IF ~AggregatorCallsLLM(results)
       THEN o_final_response' = results[1].output /\ o_pc' = "END"
       ELSE \/ o_final_response' = "fused" /\ o_pc' = "END"
            \/ o_final_response' = "orchestrator error" /\ o_pc' = "error"
    /\ UNCHANGED <<plan, tasks, web_context, rag_context, club_context,
                   combined_context, worker_writes, results>>

ONext ==
    \/ process
    \/ planning_agent_node
    \/ web_search_node
    \/ rag_search_node
    \/ club_search_node
    \/ gather_mixed_context_node
    \/ execute_tasks
    \/ worker_node
    \/ apply_worker_writes
    \/ results_aggregator_node

(***************************************************************************)
(* GraphStore: the optional citation graph                                 *)
(***************************************************************************)

\* What a session.run inside a GraphStore method comes to, had the method no
\* try block.
SessionRunUncaught(enabled, up) ==
    IF ~enabled THEN "skipped" ELSE IF up THEN "done" ELSE "raised"

\* What a GraphStore method comes to: it returns at once when the store is not
\* enabled; otherwise it runs its query in a try block, and an exception of the
\* driver is printed and not raised again.
SessionRun(enabled, up) ==
    IF ~enabled THEN "skipped" ELSE IF up THEN "done" ELSE "caught"

NoCitations == [cited_by |-> {}, cites |-> {}]

GraphCall(op, paper, outcome, unavailable, noop, ret) ==
    [op |-> op, paper |-> paper, outcome |-> outcome, unavailable |-> unavailable,
     noop |-> noop, ret |-> ret]

RInit ==
    /\ r_pc = "new"
    /\ r_configured = FALSE
    /\ r_enabled = FALSE
    /\ r_up = FALSE
    /\ r_papers = {}
    /\ r_cites = {}
    /\ r_last = GraphCall("none", "none", "skipped", FALSE, TRUE, NoCitations)

\* GraphStore.__init__ and _connect: the store is enabled when uri, user and
\* password are given and the test query succeeds.
GraphStore_init ==
    /\ UNCHANGED NotCitations
    /\ r_pc = "new"
    /\ r_pc' = "ready"
    /\ \E configured \in BOOLEAN, up \in BOOLEAN :
         /\ r_configured' = configured
         /\ r_up' = up
         /\ r_enabled' = (configured /\ up)
    /\ UNCHANGED <<r_papers, r_cites, r_last>>

\* The backend stops or starts answering.
backend_switch ==
    /\ UNCHANGED NotCitations
    /\ r_pc = "ready"
    /\ r_up' = ~r_up
    /\ UNCHANGED <<r_pc, r_configured, r_enabled, r_papers, r_cites, r_last>>

\* GraphStore.add_paper: MERGE of the Paper node
add_paper ==
    /\ UNCHANGED NotCitations
    /\ r_pc = "ready"
    /\ \E p \in Papers :
         LET outcome == SessionRun(r_enabled, r_up)
         IN /\ r_papers' = IF outcome = "done" THEN r_papers \cup {p} ELSE r_papers
            /\ r_last' = GraphCall("add_paper", p, outcome, ~r_configured \/ ~r_up,
                                   r_papers' = r_papers, NoCitations)
    /\ UNCHANGED <<r_pc, r_configured, r_enabled, r_up, r_cites>>

\* GraphStore.add_citation: the edge is merged when both nodes match
add_citation ==
    /\ UNCHANGED NotCitations
    /\ r_pc = "ready"
    /\ \E citing \in Papers, cited \in Papers :
         LET outcome == SessionRun(r_enabled, r_up)
         IN /\ r_cites' = IF outcome = "done" /\ citing \in r_papers /\ cited \in r_papers
                          THEN r_cites \cup {<<citing, cited>>}
                          ELSE r_cites
            /\ r_last' = GraphCall("add_citation", citing, outcome,
                                   ~r_configured \/ ~r_up, r_cites' = r_cites,
                                   NoCitations)
    /\ UNCHANGED <<r_pc, r_configured, r_enabled, r_up, r_papers>>

\* GraphStore.get_citations
get_citations ==
    /\ UNCHANGED NotCitations
    /\ r_pc = "ready"
    /\ \E p \in Papers :
         LET outcome == SessionRun(r_enabled, r_up)
         IN r_last' = GraphCall("get_citations", p, outcome, ~r_configured \/ ~r_up,
                                TRUE,
                                IF outcome = "done"
                                THEN [cited_by |-> {e[1] : e \in {x \in r_cites : x[2] = p}},
                                      cites |-> {e[2] : e \in {x \in r_cites : x[1] = p}}]
                                ELSE NoCitations)
    /\ UNCHANGED <<r_pc, r_configured, r_enabled, r_up, r_papers, r_cites>>

\* GraphStore.delete_paper: DETACH DELETE of the node, its edges with it
graph_delete_paper ==
    /\ UNCHANGED NotCitations
    /\ r_pc = "ready"
    /\ \E p \in Papers :
         LET outcome == SessionRun(r_enabled, r_up)
         IN /\ r_papers' = IF outcome = "done" THEN r_papers \ {p} ELSE r_papers
            /\ r_cites' = IF outcome = "done"
                          THEN {e \in r_cites : e[1] # p /\ e[2] # p}
                          ELSE r_cites
            /\ r_last' = GraphCall("delete_paper", p, outcome, ~r_configured \/ ~r_up,
                                   r_papers' = r_papers /\ r_cites' = r_cites,
                                   NoCitations)
    /\ UNCHANGED <<r_pc, r_configured, r_enabled, r_up>>

RNext ==
    \/ GraphStore_init
    \/ backend_switch
    \/ add_paper
    \/ add_citation
    \/ get_citations
    \/ graph_delete_paper

(***************************************************************************)
(* rag_server.py: the rag tool server, a process of its own beside the     *)
(* ingestion API                                                           *)
(***************************************************************************)

NoRetrieval == [called |-> FALSE, chunks |-> <<>>, deleted |-> {}, api_chunks |-> <<>>]

XInit ==
    /\ x_running = FALSE
    /\ x_store = EmptyStore
    /\ x_last = NoRetrieval

\* The module body of rag_server.py, run when the process starts: VectorStore
\* is constructed over FAISS_INDEX_DIR and loads the files found there.
rag_server_start ==
    /\ UNCHANGED NotRagServer
    /\ x_running' = TRUE
    /\ x_store' = LoadedStore(disk_index, disk_meta)
    /\ UNCHANGED x_last

\* call_tool("retrieve_context"): HybridRetrieval.retrieve searches the server's
\* vector_store. (deleted and api_chunks are history: the documents deleted
\* through the API so far, and what the API's VectorStore returns at this
\* moment.) One call is followed per behaviour.
retrieve_context ==
    /\ UNCHANGED NotRagServer
    /\ x_running
    /\ ~x_last.called
    /\ \E q \in Coords, k \in 1 .. MaxK :
         x_last' = [called |-> TRUE,
                    chunks |-> SearchIn(x_store.index, x_store.metadata,
                                        x_store.id_to_paper, q, k),
                    deleted |-> deleted_docs,
                    api_chunks |-> search(q, k)]
    /\ UNCHANGED <<x_running, x_store>>

XNext ==
    \/ process_pdf
    \/ delete_document
    \/ rag_server_start
    \/ retrieve_context

(***************************************************************************)
(* ClubDocumentChunker._split_text, character by character                 *)
(***************************************************************************)

\* The literal 100 of _split_text: the tail of the chunk searched for a
\* sentence boundary.
SentenceWindow == 100

\* text.rfind(c1 + c2): the 0-based index of the last place where c1 is followed
\* by c2, -1 if there is none.
RFind2(text, c1, c2) ==
    LET at == {i \in 1 .. (Len(text) - 1) : text[i] = c1 /\ text[i + 1] = c2}
    IN IF at = {} THEN 0 - 1 ELSE (CHOOSE i \in at : \A j \in at : i >= j) - 1

\* The chunk cut at a sentence boundary: the separators '. ', '? ', '! ' and
\* blank line are tried in this order and the first one found in last_part
\* decides. (The alphabet has no '?' and no newline.)
CutAtBoundary(chunk) ==
    LET last_part == IF Len(chunk) > SentenceWindow
                     THEN Slice(chunk, 0 - SentenceWindow, Len(chunk)) ELSE chunk
        dot == RFind2(last_part, ".", " ")
        bang == RFind2(last_part, "!", " ")
        last_sep == IF dot # 0 - 1 THEN dot ELSE bang
    IN IF last_sep = 0 - 1 THEN chunk
       ELSE Slice(chunk, 0, Len(chunk) - Len(last_part) + last_sep + 2)

\* The number of blanks strip() removes at the front of a text.
LeadingBlanks(text) ==
    LET solid == {i \in DOMAIN text : text[i] # " "}
    IN IF solid = {} THEN Len(text)
       ELSE (CHOOSE i \in solid : \A j \in solid : i <= j) - 1

\* The while loop of _split_text from start on: the stripped chunks, each with
\* (as history) the 0-based position of its first character in the text.
RECURSIVE SplitFrom(_, _, _, _)
SplitFrom(text, size, overlap, start) ==
    IF ~(start < Len(text)) THEN <<>>
    ELSE LET end == start + size
             window == Slice(text, start, end)
             chunk == IF end < Len(text) THEN CutAtBoundary(window) ELSE window
             stripped == Strip(chunk)
             stepped == end - overlap
             next_start == IF stepped <= Len(stripped) - size + overlap
                           THEN end ELSE stepped
         IN <<[text |-> stripped, at |-> start + LeadingBlanks(chunk)]>>
            \o SplitFrom(text, size, overlap, next_start)

\* ClubDocumentChunker._split_text: the chunks that are not empty
split_text(text, size, overlap) ==
    SelectSeq(SplitFrom(text, size, overlap, 0), LAMBDA c : c.text # <<>>)

NoSplit == [called |-> FALSE, chunks |-> <<>>]

EInit ==
    /\ e_text = <<>>
    /\ e_size = 2
    /\ e_overlap = 1
    /\ e_result = NoSplit

\* One _split_text call of a ClubDocumentChunker(chunk_size, chunk_overlap) with
\* 1 <= chunk_overlap < chunk_size.
split_call ==
    /\ UNCHANGED NotClubChunker
    /\ ~e_result.called
    /\ \E text \in Texts, size \in 2 .. MaxChunkSize :
         \E overlap \in 1 .. (size - 1) :
            /\ e_text' = text
            /\ e_size' = size
            /\ e_overlap' = overlap
            /\ e_result' = [called |-> TRUE, chunks |-> split_text(text, size, overlap)]

ENext == split_call

(***************************************************************************)
(* api/routes/knowledge.py: upload_document and the background task        *)
(***************************************************************************)

\* The task ids uuid4 gives to the uploads of a behaviour, one upload each.
UploadTasks == {"task_1", "task_2", "task_3"}

\* The progress callbacks of process_pdf in their order, named by the work that
\* follows each: 10 extract, 30 chunk, 50 embed, 70 store, 85 save, 100 complete.
\* (No graph store is configured.)
Stages == <<"extract", "chunk", "embed", "store", "save", "complete">>

StageIndex(pc) == CHOOSE n \in DOMAIN Stages : Stages[n] = pc

TerminalStatuses == {"completed", "failed"}

\* A background task that removes the temporary file only when process_pdf
\* succeeded.
TempFileKeptOnFailure(success) == ~success

\* The finally block of process_document_background: whether the temporary file
\* exists after it.
TempFileAfter(success) == FALSE

UInit ==
    /\ u_pc = [t \in UploadTasks |-> "new"]
    /\ u_status = [t \in UploadTasks |-> "none"]
    /\ u_temp = [t \in UploadTasks |-> FALSE]

\* upload_document: a file that is not a PDF is refused (400); the upload is
\* written to a temporary file, which is removed again when that fails (500);
\* otherwise the task is queued and its background task scheduled.
upload_document(t) ==
    /\ UNCHANGED NotUpload
    /\ u_pc[t] = "new"
    /\ \E outcome \in {"accepted", "not_pdf", "write_fails"} :
         IF outcome = "accepted"
         THEN /\ u_pc' = [u_pc EXCEPT ![t] = "scheduled"]
              /\ u_status' = [u_status EXCEPT ![t] = "queued"]
              /\ u_temp' = [u_temp EXCEPT ![t] = TRUE]
         ELSE /\ u_pc' = [u_pc EXCEPT ![t] = "refused"]
              /\ UNCHANGED <<u_status, u_temp>>

\* process_document_background up to the next progress callback of process_pdf:
\* update_progress sets the status to processing. The work between two
\* callbacks may raise, and then the except branch of process_pdf calls the
\* callback with its error text.
update_progress(t) ==
    /\ UNCHANGED NotUpload
    /\ \/ /\ u_pc[t] = "scheduled"
          /\ u_pc' = [u_pc EXCEPT ![t] = Stages[1]]
       \/ /\ u_pc[t] \in Range(Stages) \ {"complete"}
          /\ \E raises \in BOOLEAN :
               u_pc' = [u_pc EXCEPT ![t] = IF raises THEN "error"
                                           ELSE Stages[StageIndex(u_pc[t]) + 1]]
    /\ u_status' = [u_status EXCEPT ![t] = "processing"]
    /\ UNCHANGED u_temp

\* process_pdf has returned: the status becomes completed or failed.
background_result(t) ==
    /\ UNCHANGED NotUpload
    /\ u_pc[t] \in {"complete", "error"}
    /\ u_status' = [u_status EXCEPT ![t] = IF u_pc[t] = "complete" THEN "completed"
                                            ELSE "failed"]
    /\ u_pc' = [u_pc EXCEPT ![t] = "finally"]
    /\ UNCHANGED u_temp

\* The finally block: the temporary file is removed and the task ends.
background_finally(t) ==
    /\ UNCHANGED NotUpload
    /\ u_pc[t] = "finally"
    /\ u_temp' = [u_temp EXCEPT ![t] = TempFileAfter(u_status[t] = "completed")]
    /\ u_pc' = [u_pc EXCEPT ![t] = "ended"]
    /\ UNCHANGED u_status

process_document_background(t) ==
    \/ update_progress(t)
    \/ background_result(t)
    \/ background_finally(t)

UNext ==
    \E t \in UploadTasks :
        \/ upload_document(t)
        \/ process_document_background(t)

(***************************************************************************)
(* Specifications                                                          *)
(***************************************************************************)
Init == GInit /\ TInit /\ SInit /\ WInit /\ MInit /\ OInit /\ IInit /\ CInit /\ KInit /\ HInit /\ RInit /\ XInit /\ EInit /\ UInit

SpecGraph == Init /\ [][GNext]_vars

SpecThread == Init /\ [][TNext]_vars

SpecStore == Init /\ [][SNext]_vars

SpecStoreSteps == Init /\ [][WNext]_vars

SpecSmart == Init /\ [][ONext]_vars

SpecTools == Init /\ [][MNext]_vars

SpecIngest == Init /\ [][INext]_vars

SpecClub == Init /\ [][CNext]_vars

SpecChunker == Init /\ [][KNext]_vars

SpecApproval == Init /\ [][HNext]_vars

\* A background task that was scheduled is run to its end by the event loop.
SpecUpload ==
    /\ Init
    /\ [][UNext]_vars
    /\ \A t \in UploadTasks : WF_vars(process_document_background(t))

SpecClubChunker == Init /\ [][ENext]_vars

SpecRagServer == Init /\ [][XNext]_vars

SpecCitations == Init /\ [][RNext]_vars

(***************************************************************************)
(* Properties                                                              *)
(***************************************************************************)

\* C1: the edge from confidence_check back to planning is taken at most
\* max_iterations (2) times in a request, so planning runs at most 3 times.
C1_RetryBounded ==
    /\ g_retry_edges <= max_iterations
    /\ g_runs["planning"] <= max_iterations + 1

\* C2: a request whose query trips the safety gate goes from red_flag straight to
\* END: no other node of the graph runs for it and no tool is called.
C2_RedFlagShortCircuit ==
    (g_runs["red_flag"] > 0 /\ MatchesDestructivePattern(user_query)) =>
        /\ red_flag
        /\ g_pc = "END"
        /\ \A n \in GraphNodes \ {"red_flag"} : g_runs[n] = 0
        /\ g_tool_calls = {}
        /\ final_response = "canned"

\* C2 witness: a flagged request has ended.
C2_Witness == red_flag /\ g_pc = "END" /\ g_runs["red_flag"] = 1

IsPrefix(a, b) == Len(a) <= Len(b) /\ SubSeq(b, 1, Len(a)) = a

\* Every step leaves each thread's earlier message list a prefix of the later one.
C3_PrefixStep ==
    \A t \in ThreadIds : IsPrefix(get_messages(t), get_messages(t)')

\* Each thread lists its messages in the order of their appends.
C3_OrderedByAppend ==
    \A t \in ThreadIds :
        \A i, j \in DOMAIN get_messages(t) :
            i < j => get_messages(t)[i].seq < get_messages(t)[j].seq

\* C3: get_messages(T) returns the messages in append order, and the list
\* returned before an append is a prefix of the list returned after it.
C3_AppendOnly == [][C3_PrefixStep]_vars /\ []C3_OrderedByAppend

\* C3 witness: a thread holds three messages or more, appended by a chat call
\* and by add_message.
C3_Witness ==
    \E t \in DOMAIN threads :
        /\ Len(threads[t]) >= 3
        /\ \E c \in Callers : c_thread[c] = t /\ c_pc[c] # "idle"
        /\ \E i \in DOMAIN threads[t] : threads[t][i].content \in DirectTexts

\* C4: once delete_paper(D) has removed document D, and until D is added again,
\* no search returns a result whose paper_id is D or whose chunk was added under
\* D, and get_all_papers() does not contain D.
C4_DeletedGone ==
    \A d \in deleted_docs :
        /\ d \notin get_all_papers
        /\ \A q \in Coords, k \in 1 .. MaxK :
              \A n \in DOMAIN search(q, k) :
                  /\ search(q, k)[n].paper_id # d
                  /\ search(q, k)[n].chunk.added_under # d

\* C4 witness: a document was deleted and a search still returns the chunks of
\* another one.
C4_Witness ==
    /\ deleted_docs # {}
    /\ Len(search(0, MaxK)) >= 1
    /\ last_search # <<>>

\* C5: index, metadata and id_to_paper stay aligned: equal sizes, keys
\* 0 .. ntotal-1, position i of each holding the vector, the chunk and the paper
\* that were added together, and the survivors of a delete keeping their order.
C5_Aligned ==
    /\ Len(index) = Len(metadata)
    /\ DOMAIN id_to_paper = ChunkIds(ntotal)
    /\ \A i \in DOMAIN index :
          /\ i \in DOMAIN metadata
          /\ index[i].uid = metadata[i].uid
          /\ (i - 1) \in DOMAIN id_to_paper
          /\ id_to_paper[i - 1] = metadata[i].added_under
    /\ \A i, j \in DOMAIN index : i < j => index[i].uid < index[j].uid

\* C5 witness: a delete has renumbered survivors, and chunks were added after it.
C5_Witness ==
    /\ ntotal >= 2
    /\ index[1].uid > 1
    /\ index[ntotal].uid > ntotal
    /\ Cardinality(get_all_papers) = 2

\* C6: the results the aggregator fuses are in ascending task id order.
C6_AggregatorInputAscending ==
    "aggregator" \in o_ran =>
        \A i, j \in DOMAIN o_agg_input :
            i < j => o_agg_input[i].task_id < o_agg_input[j].task_id

\* C7: the combined_context a context node hands on is at most the context
\* budget (3000 characters) long.
C7_ContextWithinBudget == combined_context.len <= MixedBudget

\* C8: when the aggregator runs, results holds exactly one TaskResult per task of
\* the plan; a task whose worker failed has a result with success = false and the
\* error text; no exception leaves a worker node.
C8_OneResultPerTask ==
    /\ "aggregator" \in o_ran =>
          /\ Len(o_agg_input) = Len(tasks)
          /\ \A i \in DOMAIN tasks :
                Cardinality({n \in DOMAIN o_agg_input :
                                o_agg_input[n].task_id = tasks[i].id}) = 1
          /\ \A i \in DOMAIN worker_writes :
                worker_writes[i].outcome # "ok" =>
                    \E n \in DOMAIN o_agg_input :
                        /\ o_agg_input[n].task_id = Sends[i].task.id
                        /\ ~o_agg_input[n].success
                        /\ o_agg_input[n].output = "error text"
    /\ o_pc = "error" => (plan = NoPlan \/ "aggregator" \in o_ran)

\* C8 witness: the aggregator ran on two results, one of a worker that failed.
C8_Witness ==
    /\ "aggregator" \in o_ran
    /\ Len(o_agg_input) = 2
    /\ \E n \in DOMAIN o_agg_input : ~o_agg_input[n].success
    /\ \E n \in DOMAIN o_agg_input : o_agg_input[n].success

\* C9: a run for which the planner returned a plan reaches the aggregator before
\* it ends.
C9_AggregatorReached ==
    (o_pc \in {"END", "error"} /\ plan # NoPlan) => "aggregator" \in o_ran

\* C11: on a thread that only chat calls have appended to, the roles alternate
\* user, assistant, user, assistant, ..., starting with a user message.
C11_RolesAlternate ==
    \A t \in DOMAIN threads :
        (\A i \in DOMAIN threads[t] : threads[t][i].content \notin DirectTexts) =>
            \A i \in DOMAIN threads[t] :
                threads[t][i].role = IF i % 2 = 1 THEN "user" ELSE "assistant"

\* C12: with chat calls overlapping on a thread, every append takes effect
\* exactly once (each stamp 1 .. msg_seq is stored once, and the user message of
\* every call is at the position where the call appended it) and the stored
\* order is the order in which the appends reached the store.
C12_AppendsExactlyOnce ==
    /\ \A n \in 1 .. msg_seq :
          Cardinality({<<t, i>> \in (DOMAIN threads) \X (1 .. MaxAppends) :
                          i <= Len(threads[t]) /\ threads[t][i].seq = n}) = 1
    /\ \A c \in Callers :
          (c_pc[c] \in {"awaiting", "returned"} \/
           (c_pc[c] = "raised" /\ c_reply[c] # NoText)) =>
              /\ c_len0[c] + 1 <= Len(threads[c_thread[c]])
              /\ threads[c_thread[c]][c_len0[c] + 1].role = "user"
              /\ threads[c_thread[c]][c_len0[c] + 1].content = c_message[c]
    /\ \A t \in DOMAIN threads : \A i, j \in DOMAIN threads[t] :
          i < j => threads[t][i].seq < threads[t][j].seq

\* C12 witness: two chat calls are in flight on the same thread, both having
\* appended their user message.
C12_Witness ==
    /\ \A c \in Callers : c_pc[c] = "awaiting"
    /\ c_thread[1] = c_thread[2]
    /\ Len(threads[c_thread[1]]) >= 2

\* C13: a search that runs while add_documents or delete_paper is in progress
\* returns what it would have returned on the store before the call or on the
\* store after it.
C13_SearchSeesPreOrPost ==
    w_obs.during => (last_search = w_obs.pre \/ last_search = w_obs.post)

\* C14: a store opened from the directory after the process stopped, at any
\* point, holds as many vectors as chunks.
C14_ReopenedCountsAgree == w_reopened => Len(index) = Len(metadata)

\* C15: after any sequence of add_documents and delete_paper calls, a store
\* opened on the same directory has the vectors, the chunk metadata and the
\* chunk-to-document mapping of the store in memory.
C15_ReloadEqualsMemory ==
    /\ Len(LoadedStore(disk_index, disk_meta).index) = ntotal
    /\ LoadedStore(disk_index, disk_meta).index = index
    /\ LoadedStore(disk_index, disk_meta).metadata = metadata
    /\ LoadedStore(disk_index, disk_meta).id_to_paper = id_to_paper

\* C15 witness: files saved by a delete that left chunks of another document,
\* renumbered.
C15_Witness ==
    /\ deleted_docs # {}
    /\ disk_index.present /\ disk_meta.present
    /\ Len(disk_meta.chunks) >= 1
    /\ disk_meta.chunks[1].uid > 1

\* C16: once planning_agent_node has run, the state holds a plan (the planner's,
\* or the default plan when the planner's call failed or its output was
\* malformed), and the request is not ended by the planner: it goes on to the
\* aggregator.
C16_PlannerFailureContinues ==
    "planning" \in o_ran =>
        /\ plan # NoPlan
        /\ o_pc = "error" => "aggregator" \in o_ran

\* C17: for a query that matches a destructive pattern, planning_agent_node, the
\* context nodes and the worker nodes never run, and the reply is the canned
\* refusal.
C17_SmartSafetyGate ==
    (o_pc # "idle" /\ MatchesDestructivePattern(o_query)) =>
        /\ o_ran = {}
        /\ o_pc \in {"END", "error"} => o_final_response = "canned"

\* C18: a call_tool call, on an initialized manager, for a (server, tool) pair
\* that was not enumerated at startup fails with the not-found error, and no
\* tool is invoked.
C18_UnknownPairNotFound ==
    (m_last.outcome \notin {"none", "not_initialized"} /\ ~m_last.enumerated) =>
        m_last.outcome = "not_found"

\* C19: after an initialize in which a configured server failed to start or to
\* list its tools, the tools of the other configured servers are enumerated,
\* and none of the failed server's are.
C19_OnlyFailedServerDisabled ==
    m_initialized => m_tools = ToolsOfAll(m_server_config \cap m_up)

\* C20: a successful process_pdf of a file whose chunks the index already holds
\* leaves get_all_papers() and the number of chunks in the index as they were.
C20_ReingestIdempotent ==
    [][(/\ i_used' # i_used
        /\ i_last'.success
        /\ i_last'.filename \in IndexedFiles)
       => (get_all_papers' = get_all_papers /\ Len(index') = Len(index))]_vars

\* C21: as long as the Drive folder is unchanged, every complete run of the club
\* pipeline (run_full_ingestion downloading every file, then
\* generate_embeddings_from_chunks) leaves the same set of indexed documents and
\* the same number of indexed chunks as the first one.
C21_ClubPipelineIdempotent ==
    \A i \in DOMAIN cl_snapshots : cl_snapshots[i] = cl_snapshots[1]

\* Two complete pipelines have run on a folder of two readable files.
C21_Witness ==
    /\ Len(cl_snapshots) >= 2
    /\ cl_runs >= 2
    /\ cl_snapshots[2].n_chunks >= 3
    /\ cl_index.current

\* C22: once a document has been ingested, deleted and ingested again, and the
\* index holds nothing else, search returns for every query and every k the
\* chunks, in the order and with the scores, that it returns after one ingestion
\* of the document into a fresh index.
C22_ReingestAfterDelete ==
    \A p \in Uuids, f \in Files :
        (/\ get_all_papers = {p}
         /\ <<p, f>> \in i_source
         /\ \E old \in deleted_docs : <<old, f>> \in i_source)
        => \A q \in Coords, k \in 1 .. MaxK :
              ResultView(search(q, k), i_text) = FreshSearch(f, q, k)

\* A two-chunk document was ingested, deleted and ingested again.
C22_Witness ==
    /\ \E p \in Uuids :
          /\ get_all_papers = {p}
          /\ <<p, "b.pdf">> \in i_source
          /\ \E old \in deleted_docs : <<old, "b.pdf">> \in i_source
    /\ i_last.op = "process_pdf"
    /\ i_last.success
    /\ Len(index) = 2

\* C23: chunk_text terminates, with a finite list of chunks, for every text and
\* every chunk_size >= 1 and 0 <= chunk_overlap < chunk_size.
C23_ChunkTextTerminates == k_result.called => ~k_result.diverges

\* C24: the chunks chunk_text returns, put together in order with the overlap
\* removed from each chunk but the first, are the cleaned text.
C24_ChunksReproduceText ==
    (k_result.called /\ ~k_result.diverges)
    => Reassemble(k_result.chunks, 1, k_overlap) = k_result.text

C26_BoundaryRule ==
    (k_result.called /\ ~k_result.diverges)
    => \A i \in DOMAIN k_result.chunks :
          LET c == k_result.chunks[i]
              window == Slice(k_result.text, c.start_char, c.start_char + k_size)
          IN (c.start_char >= 0 /\ c.start_char + k_size < Len(k_result.text))
             => c.end_char = IF LastTerminator(window) > k_size \div 2
                             THEN c.start_char + LastTerminator(window) + 1
                             ELSE c.start_char + k_size

\* C27: an add_documents call whose matrix is not embedding_dim wide (following
\* a call of another kind) raises and leaves the index, the metadata, the
\* id_to_paper dict and both files as they were.
C27_WrongWidthChangesNothing ==
    [][(last_add' # last_add /\ ~last_add'.width_ok)
       => /\ last_add'.raised
          /\ UNCHANGED <<index, metadata, id_to_paper, disk_index, disk_meta>>]_vars

\* A call with a matrix of a wrong width, on a store that holds vectors, has
\* raised.
C27_Witness ==
    /\ ~last_add.width_ok
    /\ last_add.raised
    /\ Len(index) >= 1

\* C28: for an empty or whitespace-only query the planner produces the default
\* plan, and process returns a non-empty reply and reports success.
C28_BlankQueryDefaultPlan ==
    (o_query \in BlankQueries /\ o_pc # "idle")
    => /\ plan # NoPlan
       /\ o_final_response # ""
       /\ ProcessSuccess

\* C30: when one result reaches results_aggregator_node the final response is
\* that result's output and the LLM is not called; when two or more reach it
\* the LLM is called once.
C30_AggregatorSingleVerbatim ==
    "aggregator" \in o_ran
    => /\ Len(o_agg_input) = 1
          => (o_final_response = o_agg_input[1].output /\ o_agg_llm = 0)
       /\ Len(o_agg_input) >= 2 => o_agg_llm = 1

\* The aggregator has fused two results or more.
C30_Witness ==
    /\ "aggregator" \in o_ran
    /\ Len(o_agg_input) >= 2
    /\ o_final_response = "fused"

\* C29: an operation the tool plan marks needs_approval is never given to
\* call_tool, and exactly one pending-approval record describes it.
C29_ApprovalNeverExecuted ==
    h_pc = "done"
    => \A n \in DOMAIN h_plan :
          h_plan[n].needs_approval
          => /\ n \notin h_calls
             /\ Cardinality({j \in DOMAIN h_pending : h_pending[j].op = n}) = 1

\* C10: a chat call on an existing thread for which a reply was produced returns
\* that reply, and the thread has grown by the user message and one assistant
\* message holding the reply.
C10_ChatReturnsReply ==
    \A c \in Callers :
        (c_pc[c] \in {"returned", "raised"} /\ c_reply[c] # NoText) =>
            /\ c_pc[c] = "returned"
            /\ c_result[c] = c_reply[c]
            /\ Len(get_messages(c_thread[c])) >= c_len0[c] + 2
            /\ get_messages(c_thread[c])[c_len0[c] + 1].role = "user"
            /\ get_messages(c_thread[c])[c_len0[c] + 1].content = c_message[c]
            /\ \E i \in DOMAIN get_messages(c_thread[c]) :
                  /\ i > c_len0[c] + 1
                  /\ get_messages(c_thread[c])[i].role = "assistant"
                  /\ get_messages(c_thread[c])[i].content = c_reply[c]

\* Position of a provider in gather_mixed_context_node: web, then rag, then club.
ProviderRank(source) ==
    IF source = "web_search" THEN 1 ELSE IF source = "rag" THEN 2 ELSE 3

\* C31: the combined_context gather_mixed_context_node builds lists the items of
\* all providers in descending relevance order, items of equal relevance in
\* provider order (web, rag, club) and then in the order of their queries.
C31_MixedContextByRelevance ==
    "gather_mixed_context" \in o_ran
    => \A i, j \in DOMAIN combined_context.items :
          i < j
          => LET a == combined_context.items[i]
                 b == combined_context.items[j]
             IN /\ ~MoreRelevant(b, a)
                /\ ~MoreRelevant(a, b)
                   => \/ ProviderRank(a.source) < ProviderRank(b.source)
                      \/ /\ a.source = b.source
                         /\ a.qpos < b.qpos

\* C32: for every non-empty list of rows the club retriever returned,
\* ClubSearchProvider.search returned one item, whose relevance is the mean of the
\* rows' scores and lies between 0 and 1.
C32_ClubRelevanceIsMean ==
    \A n \in DOMAIN o_club_rows :
        o_club_rows[n].kind = "rows"
        => LET rows == o_club_rows[n].rows
               found == {i \in DOMAIN club_context : club_context[i].qpos = n}
           IN /\ Cardinality(found) = 1
              /\ \A i \in found :
                    /\ club_context[i].rel_num * Len(rows)
                         = SumSeq([r \in DOMAIN rows |-> rows[r].score])
                              * club_context[i].rel_den
                    /\ ValidRelevance(club_context[i].rel_num, club_context[i].rel_den)

\* C33: a run of run_full_ingestion in which a downloaded file could not be
\* parsed is not aborted by it: when another file parsed into chunks, those chunks
\* are saved; and the summary the run returns reports the failure, by an entry of
\* errors or a status other than success.
C33_ParseFailureReported ==
    cl_result.unparsed # {}
    => /\ cl_result.stats.total_chunks > 0
          => /\ cl_result.status # "failed"
             /\ cl_chunks_latest.present
             /\ Len(cl_chunks_latest.chunks) = cl_result.stats.total_chunks
       /\ cl_result.errors # <<>> \/ cl_result.status # "success"

\* C38: a generate_embeddings_from_chunks call that fails leaves the index that
\* was built before it as it was, on disk and searchable.
C38_FailedRebuildKeepsIndex ==
    [][(/\ cl_source' = cl_source
        /\ cl_runs' = cl_runs
        /\ cl_status' = "embed_failed") => cl_index' = cl_index]_vars

\* C34: a GraphStore call made while the backend is not configured or does not
\* answer raises nothing; add_paper, add_citation and delete_paper change
\* nothing, and get_citations returns empty cited_by and cites lists.
C34_GraphStoreDegrades ==
    (r_last.op # "none" /\ r_last.unavailable)
    => /\ r_last.outcome # "raised"
       /\ r_last.noop
       /\ r_last.ret = NoCitations

\* C34 witness: get_citations was called on an enabled store whose backend had
\* stopped answering, for a paper the graph holds edges of.
C34_Witness ==
    /\ r_last.op = "get_citations"
    /\ r_last.outcome = "caught"
    /\ \E e \in r_cites : e[1] = r_last.paper \/ e[2] = r_last.paper

\* C35: a process_pdf call that returns success = false leaves the vector index,
\* in memory and on disk, and the upload directory as they were before the call.
C35_FailedIngestLeavesNothing ==
    [][(i_used' # i_used /\ ~i_last'.success)
       => /\ index' = index
          /\ metadata' = metadata
          /\ id_to_paper' = id_to_paper
          /\ disk_index' = disk_index
          /\ disk_meta' = disk_meta
          /\ i_uploads' = i_uploads]_vars

\* C36: a retrieve_context call served by the rag tool server sees every change
\* made through the ingestion API before it: it returns no chunk of a document
\* deleted by then, and it returns what the API's own index returns, the chunks of
\* completed uploads included.
C36_ToolSeesApiChanges ==
    x_last.called
    => /\ \A n \in DOMAIN x_last.chunks : x_last.chunks[n].paper_id \notin x_last.deleted
       /\ x_last.chunks = x_last.api_chunks

\* C37: in every plan-retry iteration, response_generation uses the results of
\* no agent other than those the iteration's intent_categories select.
C37_ResponseUsesIterationResults ==
    g_pc = "confidence_check" => context_parts \subseteq intent_categories

\* C39: every character of the text given to _split_text, blanks aside, lies in
\* at least one of the chunks it returns.
C39_EveryCharacterInAChunk ==
    e_result.called
    => \A i \in DOMAIN e_text :
          e_text[i] # " "
          => \E n \in DOMAIN e_result.chunks :
                /\ e_result.chunks[n].at < i
                /\ i <= e_result.chunks[n].at + Len(e_result.chunks[n].text)

StatusRank(status) ==
    CASE status = "none" -> 0
      [] status = "queued" -> 1
      [] status = "processing" -> 2
      [] OTHER -> 3

C40_StatusStep ==
    \A t \in UploadTasks :
        /\ StatusRank(u_status'[t]) >= StatusRank(u_status[t])
        /\ u_status[t] \in TerminalStatuses => u_status'[t] = u_status[t]

\* C40: the status of an accepted upload only moves forward, from queued to
\* processing to completed or failed; it reaches completed or failed; a terminal
\* status never changes; and when the background task has ended the temporary
\* upload file is gone.
C40_UploadStatusProgress ==
    /\ [][C40_StatusStep]_vars
    /\ \A t \in UploadTasks :
          (u_status[t] = "queued") ~> (u_status[t] \in TerminalStatuses)
    /\ [](\A t \in UploadTasks :
             u_pc[t] = "ended" => (~u_temp[t] /\ u_status[t] \in TerminalStatuses))

\* C40 witness: one background task has ended after a failure and another after
\* a success.
C40_Witness ==
    \E t, s \in UploadTasks :
        /\ u_pc[t] = "ended" /\ u_status[t] = "failed"
        /\ u_pc[s] = "ended" /\ u_status[s] = "completed"

====
